---------------------------- MODULE Spec2Model ----------------------------
(***************************************************************************)
(* A model of the faerun encounter server: the hex coordinate system, the *)
(* position seed, the terrain service, the positional encounter service   *)
(* and the XP-budget encounter generator.                                  *)
(*                                                                         *)
(* Python values are modelled as follows.  A dict is a record, a list a    *)
(* sequence, a str that the code inspects character by character a         *)
(* sequence of one-character strings, None the record PyNone.  A float in  *)
(* [0, 1) is an integer number of hundredths.  A raised exception is a     *)
(* result record with status "raised".                                     *)
(***************************************************************************)
EXTENDS Integers, Sequences, FiniteSets, TLC

VARIABLES
    hashSalt,   \* the str-hash salt this interpreter process drew at start-up
    rng,        \* the state of the module-level generator of `random`
    monsters,   \* XPEncounterGenerator.monsters, the catalog given at construction
    call,       \* the invocation the caller has issued and not yet collected
    last,       \* what that invocation returned or raised
    thr,        \* the threads running EncounterService.generate_encounter step by step
    observed,   \* a position seed an outside observer noted in an earlier process run
    saves_db    \* routers/saves.py: the in-memory list of saves

vars == <<hashSalt, rng, monsters, call, last, thr, observed, saves_db>>

-----------------------------------------------------------------------------
(* Bounds of the model. *)

\* Positional calls take q and r in -MaxCoord..MaxCoord.
MaxCoord == 1
\* Party levels given to positional calls are 1..MaxPartyLevel.
MaxPartyLevel == 2
\* The hash salt of a process is one of 0..MaxSalt.
MaxSalt == 1
\* get_random_terrain is also called with the literal seeds -1..MaxTerrainSeed.
MaxTerrainSeed == 1
\* Hex geometry calls take q and r in -MaxHex..MaxHex and a radius in 0..MaxRadius.
MaxHex == 2
MaxRadius == 3
\* XP calls take a level in -1..MaxLevelInput.
MaxDistance == 70
\* Direction arguments range over -MaxDirection..MaxDirection.
MaxDirection == 8
\* XP calls are followed while the seeded generator has given at most
\* MaxRngPos numbers.
MaxRngPos == 3
\* The save store holds at most MaxSaves saves, made at times 0..MaxClock.
MaxSaves == 3
MaxClock == 1
\* A caller's change of a returned entry is followed after calls for player
\* levels up to MaxAliasLevel.
MaxAliasLevel == 1
MaxLevelInput == 21

CoordRange == (0 - MaxCoord)..MaxCoord
PartyLevels == 1..MaxPartyLevel
Salts == 0..MaxSalt
HexRange == (0 - MaxHex)..MaxHex
Radii == 0..MaxRadius

-----------------------------------------------------------------------------
(* Python built-ins used by the code. *)

PyNone == [none |-> TRUE]

Abs(x) == IF x < 0 THEN 0 - x ELSE x
Max2(a, b) == IF a >= b THEN a ELSE b
Min2(a, b) == IF a <= b THEN a ELSE b

\* range(a, b) as a list.
PyRange(a, b) == [i \in 1..Max2(0, b - a) |-> a + i - 1]

RECURSIVE SumSeq(_)
SumSeq(s) == IF s = <<>> THEN 0 ELSE Head(s) + SumSeq(Tail(s))

SeqToSet(s) == {s[i] : i \in 1..Len(s)}

\* str(n) of an int: the decimal digits, after a minus sign when n < 0.
DigitChar == <<"0", "1", "2", "3", "4", "5", "6", "7", "8", "9">>
RECURSIVE NatToStr(_)
NatToStr(n) ==
    IF n < 10 THEN <<DigitChar[n + 1]>>
    ELSE NatToStr(n \div 10) \o <<DigitChar[(n % 10) + 1]>>
IntToStr(n) == IF n < 0 THEN <<"-">> \o NatToStr(0 - n) ELSE NatToStr(n)

\* ord(c) for the characters a formatted coordinate pair holds.
CharCode(c) ==
    CASE c = "," -> 44
      [] c = "-" -> 45
      [] OTHER -> 47 + (CHOOSE i \in 1..10 : DigitChar[i] = c)

-----------------------------------------------------------------------------
(* services/hex_coordinate_system.py *)

\* The six axial deltas, index 0 first: E, NE, NW, W, SW, SE.
DIRECTIONS == << <<1, 0>>, <<1, -1>>, <<0, -1>>, <<-1, 0>>, <<-1, 1>>, <<0, 1>> >>

DIRECTION_NAMES ==
    <<"East", "Northeast", "Northwest", "West", "Southwest", "Southeast">>

\* get_neighbor as it would be if an out-of-range direction were clamped
\* into 0..5 instead of wrapped.
get_neighbor_clamped(q, r, direction) ==
    LET d == DIRECTIONS[Max2(0, Min2(5, direction)) + 1]
    IN  <<q + d[1], r + d[2]>>

get_neighbor(q, r, direction) ==
    LET d == DIRECTIONS[(direction % 6) + 1]
    IN  <<q + d[1], r + d[2]>>

get_all_neighbors(q, r) == [i \in 1..6 |-> get_neighbor(q, r, i - 1)]

\* get_distance as it would be with the row difference taken without abs().
get_distance_signed(q1, r1, q2, r2) ==
    (Abs(q1 - q2) + Abs(q1 + r1 - q2 - r2) + (r1 - r2)) \div 2

\* get_distance as it would be without the diagonal term.
get_distance_no_diagonal(q1, r1, q2, r2) ==
    (Abs(q1 - q2) + Abs(r1 - r2)) \div 2

\* get_distance as it would be with squared differences.
get_distance_squared(q1, r1, q2, r2) ==
    ((q1 - q2) * (q1 - q2) + (q1 + r1 - q2 - r2) * (q1 + r1 - q2 - r2)
        + (r1 - r2) * (r1 - r2)) \div 2

get_distance(q1, r1, q2, r2) ==
    (Abs(q1 - q2) + Abs(q1 + r1 - q2 - r2) + Abs(r1 - r2)) \div 2

\* get_direction_index as it would be with the delta taken from target to start.
get_direction_index_reversed(from_q, from_r, to_q, to_r) ==
    LET dq == from_q - to_q
        dr == from_r - to_r
        hits == {i \in 1..6 : DIRECTIONS[i] = <<dq, dr>>}
    IN  IF hits = {} THEN 0
        ELSE (CHOOSE i \in hits : \A j \in hits : i <= j) - 1

\* The first index whose delta is (to - from), 0 when there is none.
get_direction_index(from_q, from_r, to_q, to_r) ==
    LET dq == to_q - from_q
        dr == to_r - from_r
        hits == {i \in 1..6 : DIRECTIONS[i] = <<dq, dr>>}
    IN  IF hits = {} THEN 0
        ELSE (CHOOSE i \in hits : \A j \in hits : i <= j) - 1

get_direction_name(direction) == DIRECTION_NAMES[(direction % 6) + 1]

\* The inner loop of get_hexes_in_radius for one value q of the outer loop.
\* r1 and r2 are computed from q itself, the absolute coordinate, as the code does.
HexColumn(center_r, radius, q) ==
    LET r1 == Max2(center_r - radius, center_r - q - radius)
        r2 == Min2(center_r + radius, center_r - q + radius)
        rs == PyRange(r1, r2 + 1)
    IN  [i \in 1..Len(rs) |-> <<q, rs[i]>>]

RECURSIVE HexColumns(_, _, _)
HexColumns(center_r, radius, qs) ==
    IF qs = <<>> THEN <<>>
    ELSE HexColumn(center_r, radius, Head(qs)) \o HexColumns(center_r, radius, Tail(qs))

get_hexes_in_radius(center_q, center_r, radius) ==
    HexColumns(center_r, radius, PyRange(center_q - radius, center_q + radius + 1))

-----------------------------------------------------------------------------
(* The interpreter's str hash and the module-level generator of `random`.  *)
(* Neither is code of the repository.  Both are modelled at the level the  *)
(* code uses them, on 16-bit integers: TLC's integers are 32-bit.          *)

\* hash(s) of a str: a keyed hash, the key being the salt the process drew at
\* start-up.  The result is signed.
HashModulus == 2 ^ 16
RECURSIVE HashChars(_, _)
HashChars(h, s) ==
    IF s = <<>> THEN h
    ELSE HashChars((h * 33 + CharCode(Head(s))) % HashModulus, Tail(s))
str_hash(salt, s) ==
    LET h == HashChars((salt * 7919 + 5381) % HashModulus, s)
    IN  IF h >= HashModulus \div 2 THEN h - HashModulus ELSE h

\* The generator: either still seeded from the operating system's entropy
\* (seed = NoSeed, every draw is free), or seeded by random.seed(a), and then
\* its draws are a fixed function of the seed and of how many draws were made
\* since (pos).
NoSeed == 0 - 1
Unseeded == [seed |-> NoSeed, pos |-> 0]

RECURSIVE RngWord(_, _)
RngWord(seed, pos) ==
    LET prev == IF pos = 0 THEN seed % 65537 ELSE RngWord(seed, pos - 1)
    IN  (75 * prev + 74) % 65537

\* A draw below n: `e` is the outcome when the generator runs on entropy.
RandBelow(g, n, e) ==
    IF g.seed = NoSeed THEN e ELSE RngWord(g.seed, g.pos) % n
Advance(g) == IF g.seed = NoSeed THEN g ELSE [g EXCEPT !.pos = @ + 1]

\* The outcomes entropy can give a draw below n (a seeded generator has no choice).
Entropy(g, n) == IF g.seed = NoSeed THEN 0..(n - 1) ELSE {0}

random_seed(a) == [seed |-> Abs(a), pos |-> 0]

\* random.random(), in hundredths: one of 0, 5, ..., 95.
random_random(g, e) == [val |-> 5 * RandBelow(g, 20, e), rng |-> Advance(g)]

random_choice(g, seq, e) ==
    [val |-> seq[RandBelow(g, Len(seq), e) + 1], rng |-> Advance(g)]

random_randint(g, a, b, e) ==
    [val |-> a + RandBelow(g, b - a + 1, e), rng |-> Advance(g)]

\* What a call hands back: a value or an exception, and the generator it leaves.
Returned(v, g) == [status |-> "returned", value |-> v, rng |-> g]
Raised(err, g) == [status |-> "raised", value |-> [error |-> err], rng |-> g]

-----------------------------------------------------------------------------
(* services/terrain_service.py *)

TerrainType == {"plains", "forest", "mountain", "hills", "swamp", "desert", "urban"}

\* move_cost and encounter_rate in hundredths.
TERRAIN_PROPERTIES ==
    [t \in TerrainType |->
        CASE t = "plains" ->
               [move_cost |-> 100, encounter_rate |-> 30, visibility |-> "high",
                navigation_dc |-> 10]
          [] t = "forest" ->
               [move_cost |-> 120, encounter_rate |-> 50, visibility |-> "low",
                navigation_dc |-> 12]
          [] t = "mountain" ->
               [move_cost |-> 150, encounter_rate |-> 40, visibility |-> "high",
                navigation_dc |-> 15]
          [] t = "hills" ->
               [move_cost |-> 120, encounter_rate |-> 35, visibility |-> "medium",
                navigation_dc |-> 12]
          [] t = "swamp" ->
               [move_cost |-> 150, encounter_rate |-> 60, visibility |-> "low",
                navigation_dc |-> 14]
          [] t = "desert" ->
               [move_cost |-> 130, encounter_rate |-> 20, visibility |-> "high",
                navigation_dc |-> 13]
          [] t = "urban" ->
               [move_cost |-> 100, encounter_rate |-> 40, visibility |-> "medium",
                navigation_dc |-> 8]]

get_encounter_rate(terrain_type) ==
    IF terrain_type \in DOMAIN TERRAIN_PROPERTIES
    THEN TERRAIN_PROPERTIES[terrain_type].encounter_rate
    ELSE 30

\* random.seed(seed), then a choice among the six non-urban terrains.
get_random_terrain(seed, e) ==
    LET terrain_choices == <<"plains", "forest", "mountain", "hills", "swamp", "desert">>
        c == random_choice(random_seed(seed), terrain_choices, e)
    IN  Returned(c.val, c.rng)

\* (number of dice, die size, multiplier) per terrain.
distance_formulas(terrain_type) ==
    CASE terrain_type = "plains" -> <<6, 6, 10>>
      [] terrain_type = "forest" -> <<2, 8, 10>>
      [] terrain_type = "mountain" -> <<4, 10, 10>>
      [] terrain_type = "hills" -> <<2, 10, 10>>
      [] terrain_type = "swamp" -> <<2, 6, 10>>
      [] terrain_type = "desert" -> <<6, 6, 10>>
      [] terrain_type = "urban" -> <<2, 10, 10>>
      [] OTHER -> <<2, 6, 10>>

\* sum(random.randint(1, die_size) for _ in range(num_dice)); es holds the
\* entropy outcomes of the rolls.
RECURSIVE RollDice(_, _, _, _)
RollDice(g, num_dice, die_size, es) ==
    IF num_dice = 0 THEN [val |-> 0, rng |-> g]
    ELSE LET d == random_randint(g, 1, die_size, Head(es))
             rest == RollDice(d.rng, num_dice - 1, die_size, Tail(es))
         IN  [val |-> d.val + rest.val, rng |-> rest.rng]

calculate_encounter_distance(g, terrain_type, es) ==
    LET formula == distance_formulas(terrain_type)
        rolled == RollDice(g, formula[1], formula[2], es)
    IN  [val |-> rolled.val * formula[3], rng |-> rolled.rng]

-----------------------------------------------------------------------------
(* services/encounter_service.py *)

TERRAIN_ENCOUNTER_TYPES ==
    [t \in TerrainType |->
        CASE t = "plains" -> <<"beast", "humanoid">>
          [] t = "forest" -> <<"beast", "fey", "humanoid">>
          [] t = "mountain" -> <<"giant", "dragon", "beast">>
          [] t = "hills" -> <<"humanoid", "beast", "giant">>
          [] t = "swamp" -> <<"monstrosity", "undead", "aberration">>
          [] t = "desert" -> <<"monstrosity", "elemental", "beast">>
          [] t = "urban" -> <<"humanoid", "construct">>]

\* hash(f"{q},{r}") % (2**31); the modulus is scaled to the 16-bit hash.
SeedModulus == 2 ^ 15
_get_position_seed(salt, q, r) ==
    str_hash(salt, IntToStr(q) \o <<",">> \o IntToStr(r)) % SeedModulus

\* _calculate_encounter_cr as it would be without the final cap at CR 20.
_calculate_encounter_cr_uncapped(distance, terrain_type, party_level) ==
    LET base_cr == (distance \div 3)
                       + (IF terrain_type \in {"mountain", "swamp"} THEN 1 ELSE 0)
    IN  Max2(Max2(0, party_level - 2), Min2(base_cr, party_level + 2))

\* _calculate_encounter_cr as it would be if a base CR above the party's range
\* fell back to the bottom of the range.
_calculate_encounter_cr_fallback(distance, terrain_type, party_level) ==
    LET base_cr == (distance \div 3)
                   + (IF terrain_type \in {"mountain", "swamp"} THEN 1 ELSE 0)
        min_cr == Max2(0, party_level - 2)
        max_cr == party_level + 2
        cr == IF base_cr > max_cr THEN min_cr ELSE Max2(min_cr, base_cr)
    IN  Max2(0, Min2(cr, 20))

_calculate_encounter_cr(distance, terrain_type, party_level) ==
    LET base_cr == (distance \div 3)
                   + (IF terrain_type \in {"mountain", "swamp"} THEN 1 ELSE 0)
        min_cr == Max2(0, party_level - 2)
        max_cr == party_level + 2
        cr == Max2(min_cr, Min2(base_cr, max_cr))
    IN  Max2(0, Min2(cr, 20))

\* _get_encounter_type_for_terrain as it would be if every terrain used the
\* default list.
_get_encounter_type_for_terrain_default(g, terrain_type, e) ==
    random_choice(g, <<"beast">>, e)

_get_encounter_type_for_terrain(g, terrain_type, e) ==
    LET possible_types == IF terrain_type \in DOMAIN TERRAIN_ENCOUNTER_TYPES
                          THEN TERRAIN_ENCOUNTER_TYPES[terrain_type]
                          ELSE <<"beast">>
    IN  random_choice(g, possible_types, e)

\* The narrative text, as the pieces the f-string joins.
_generate_encounter_description(encounter_type, terrain_type, cr) ==
    LET k == <<encounter_type, terrain_type>>
        tail == <<cr, ")">>
    IN  CASE k = <<"beast", "plains">> ->
               <<"A pack of wild beasts roams the grasslands (CR ">> \o tail
          [] k = <<"beast", "forest">> ->
               <<"Predators stalk through the dense forest (CR ">> \o tail
          [] k = <<"beast", "mountain">> ->
               <<"Mountain predators prowl the rocky slopes (CR ">> \o tail
          [] k = <<"humanoid", "plains">> ->
               <<"Armed travelers block your path (CR ">> \o tail
          [] k = <<"humanoid", "hills">> ->
               <<"Bandits have established a camp here (CR ">> \o tail
          [] k = <<"humanoid", "urban">> ->
               <<"Guards patrol this area (CR ">> \o tail
          [] k = <<"undead", "swamp">> ->
               <<"Undead creatures rise from the murky waters (CR ">> \o tail
          [] k = <<"dragon", "mountain">> ->
               <<"A dragon's lair dominates this peak (CR ">> \o tail
          [] OTHER ->
               <<"You encounter ", encounter_type, "s in this ", terrain_type,
                 " (CR ">> \o tail

\* The dict generate_encounter returns when an encounter occurs.
EncounterDict(q, r, terrain_type, encounter_type, cr, distance, encounter_distance, seed) ==
    [q |-> q, r |-> r, terrain_type |-> terrain_type,
     encounter_type |-> encounter_type, cr |-> cr,
     description |-> _generate_encounter_description(encounter_type, terrain_type, cr),
     distance_from_origin |-> distance,
     encounter_distance_ft |-> encounter_distance, seed |-> seed]

NoEntropy == <<0, 0, 0, 0, 0, 0>>

\* EncounterService.generate_encounter run from start to end with nothing in
\* between, on the generator g.
\* generate_encounter as it would be without random.seed(seed): it draws
\* from the generator as the calls before it left it.
generate_encounter_unseeded(g, salt, q, r, terrain_type, party_level) ==
    LET seed == _get_position_seed(salt, q, r)
        roll == random_random(g, 0)
    IN  IF roll.val >= get_encounter_rate(terrain_type)
        THEN Returned(PyNone, roll.rng)
        ELSE LET distance == get_distance(0, 0, q, r)
                 cr == _calculate_encounter_cr(distance, terrain_type, party_level)
                 ty == _get_encounter_type_for_terrain(roll.rng, terrain_type, 0)
                 ed == calculate_encounter_distance(ty.rng, terrain_type, NoEntropy)
             IN  Returned(EncounterDict(q, r, terrain_type, ty.val, cr, distance,
                                        ed.val, seed), ed.rng)

generate_encounter(g, salt, q, r, terrain_type, party_level) ==
    LET seed == _get_position_seed(salt, q, r)
        roll == random_random(random_seed(seed), 0)
    IN  IF roll.val >= get_encounter_rate(terrain_type)
        THEN Returned(PyNone, roll.rng)
        ELSE LET distance == get_distance(0, 0, q, r)
                 cr == _calculate_encounter_cr(distance, terrain_type, party_level)
                 ty == _get_encounter_type_for_terrain(roll.rng, terrain_type, 0)
                 ed == calculate_encounter_distance(ty.rng, terrain_type, NoEntropy)
             IN  Returned(EncounterDict(q, r, terrain_type, ty.val, cr, distance,
                                        ed.val, seed),
                          ed.rng)

\* check_for_encounter_on_travel as it would be if it refused only distances
\* above 1.
check_for_encounter_on_travel_lenient(g, salt, from_q, from_r, to_q, to_r, terrain_type, party_level) ==
    IF get_distance(from_q, from_r, to_q, to_r) > 1 THEN Raised("ValueError", g)
    ELSE generate_encounter(g, salt, to_q, to_r, terrain_type, party_level)

check_for_encounter_on_travel(g, salt, from_q, from_r, to_q, to_r, terrain_type, party_level) ==
    LET distance == get_distance(from_q, from_r, to_q, to_r)
    IN  IF distance # 1
        THEN Raised("ValueError", g)
        ELSE generate_encounter(g, salt, to_q, to_r, terrain_type, party_level)

-----------------------------------------------------------------------------
(* data/monsters.py *)

\* A challenge rating string: "n" or "n/d".
CrInt(n) == NatToStr(n)
CrFrac(n, d) == NatToStr(n) \o <<"/">> \o NatToStr(d)

Monster(name, cr, xp, type, can_be_mount, can_ride) ==
    [name |-> name, cr |-> cr, xp |-> xp, type |-> type,
     can_be_mount |-> can_be_mount, can_ride |-> can_ride]

BASIC_MONSTERS == <<
    Monster("Rat", CrInt(0), 10, "beast", FALSE, FALSE),
    Monster("Kobold", CrFrac(1, 8), 25, "humanoid", FALSE, TRUE),
    Monster("Goblin", CrFrac(1, 4), 50, "humanoid", FALSE, TRUE),
    Monster("Wolf", CrFrac(1, 4), 50, "beast", TRUE, FALSE),
    Monster("Skeleton", CrFrac(1, 4), 50, "undead", FALSE, FALSE),
    Monster("Zombie", CrFrac(1, 4), 50, "undead", FALSE, FALSE),
    Monster("Orc", CrFrac(1, 2), 100, "humanoid", FALSE, TRUE),
    Monster("Warg", CrFrac(1, 2), 100, "beast", TRUE, FALSE),
    Monster("Wight", CrInt(3), 700, "undead", FALSE, FALSE),
    Monster("Ghoul", CrInt(1), 200, "undead", FALSE, FALSE),
    Monster("Hobgoblin", CrFrac(1, 2), 100, "humanoid", FALSE, TRUE),
    Monster("Bugbear", CrInt(1), 200, "humanoid", FALSE, FALSE),
    Monster("Ogre", CrInt(2), 450, "giant", FALSE, FALSE),
    Monster("Owlbear", CrInt(3), 700, "monstrosity", FALSE, FALSE),
    Monster("Manticore", CrInt(3), 700, "monstrosity", FALSE, FALSE),
    Monster("Troll", CrInt(5), 1800, "giant", FALSE, FALSE),
    Monster("Dire Wolf", CrInt(1), 200, "beast", TRUE, FALSE),
    Monster("Wyvern", CrInt(6), 2300, "dragon", TRUE, FALSE),
    Monster("Hill Giant", CrInt(5), 1800, "giant", FALSE, FALSE),
    Monster("Young Black Dragon", CrInt(7), 2900, "dragon", FALSE, FALSE),
    Monster("Young Green Dragon", CrInt(8), 3900, "dragon", FALSE, FALSE),
    Monster("Stone Giant", CrInt(7), 2900, "giant", FALSE, FALSE),
    Monster("Fire Giant", CrInt(9), 5000, "giant", FALSE, FALSE),
    Monster("Wraith", CrInt(5), 1800, "undead", FALSE, FALSE),
    Monster("Young Red Dragon", CrInt(10), 5900, "dragon", FALSE, FALSE),
    Monster("Adult Black Dragon", CrInt(14), 11500, "dragon", FALSE, FALSE),
    Monster("Frost Giant", CrInt(8), 3900, "giant", FALSE, FALSE),
    Monster("Cloud Giant", CrInt(9), 5000, "giant", FALSE, FALSE),
    Monster("Vampire", CrInt(13), 10000, "undead", FALSE, FALSE),
    Monster("Adult Red Dragon", CrInt(17), 18000, "dragon", FALSE, FALSE),
    Monster("Ancient Black Dragon", CrInt(21), 33000, "dragon", FALSE, FALSE),
    Monster("Ancient Red Dragon", CrInt(24), 62000, "dragon", FALSE, FALSE),
    Monster("Lich", CrInt(21), 33000, "undead", FALSE, FALSE),
    Monster("Tarrasque", CrInt(30), 155000, "monstrosity", FALSE, FALSE) >>

-----------------------------------------------------------------------------
(* data/xp_budgets.py *)

\* The three difficulty keys, as strings of characters.
KeyLow == <<"l", "o", "w">>
KeyModerate == <<"m", "o", "d", "e", "r", "a", "t", "e">>
KeyHigh == <<"h", "i", "g", "h">>

\* One row per level 1..20: the low, moderate and high budgets.
BudgetRows == <<
    <<50, 75, 100>>, <<100, 150, 200>>, <<150, 225, 400>>, <<250, 375, 500>>,
    <<500, 750, 1100>>, <<600, 1000, 1400>>, <<750, 1300, 1700>>,
    <<900, 1600, 2100>>, <<1100, 1900, 2600>>, <<1300, 2300, 3100>>,
    <<1600, 2700, 3700>>, <<1900, 3200, 4300>>, <<2200, 3700, 5000>>,
    <<2600, 4300, 5800>>, <<3000, 5000, 6700>>, <<3500, 5800, 7800>>,
    <<4000, 6700, 9000>>, <<4700, 7800, 10500>>, <<5400, 9000, 12100>>,
    <<6300, 10500, 14100>> >>

XP_BUDGETS ==
    [level \in 1..Len(BudgetRows) |->
        [d \in {KeyLow, KeyModerate, KeyHigh} |->
            CASE d = KeyLow -> BudgetRows[level][1]
              [] d = KeyModerate -> BudgetRows[level][2]
              [] d = KeyHigh -> BudgetRows[level][3]]]

\* str.lower(), character by character.
UpperChars == <<"A", "B", "C", "D", "E", "F", "G", "H", "I", "J", "K", "L", "M",
                "N", "O", "P", "Q", "R", "S", "T", "U", "V", "W", "X", "Y", "Z">>
LowerChars == <<"a", "b", "c", "d", "e", "f", "g", "h", "i", "j", "k", "l", "m",
                "n", "o", "p", "q", "r", "s", "t", "u", "v", "w", "x", "y", "z">>
LowerChar(c) ==
    IF \E i \in 1..26 : UpperChars[i] = c
    THEN LowerChars[CHOOSE i \in 1..26 : UpperChars[i] = c]
    ELSE c
str_lower(s) == [i \in 1..Len(s) |-> LowerChar(s[i])]

\* The budget, or the ValueError the lookup raises.
\* get_xp_budget as it would be with budgets capped at 10000.
get_xp_budget_capped(level, difficulty) ==
    IF level \notin DOMAIN XP_BUDGETS
    THEN [raised |-> TRUE, val |-> 0]
    ELSE LET difficulty_lower == str_lower(difficulty)
         IN  IF difficulty_lower \notin DOMAIN XP_BUDGETS[level]
             THEN [raised |-> TRUE, val |-> 0]
             ELSE [raised |-> FALSE,
                   val |-> Min2(10000, XP_BUDGETS[level][difficulty_lower])]

get_xp_budget(level, difficulty) ==
    IF level \notin DOMAIN XP_BUDGETS
    THEN [raised |-> TRUE, val |-> 0]
    ELSE LET difficulty_lower == str_lower(difficulty)
         IN  IF difficulty_lower \notin DOMAIN XP_BUDGETS[level]
             THEN [raised |-> TRUE, val |-> 0]
             ELSE [raised |-> FALSE, val |-> XP_BUDGETS[level][difficulty_lower]]

\* get_tier_max_cr as it would be with one ceiling for every level.
get_tier_max_cr_flat(level) == 20

get_tier_max_cr(level) ==
    IF level <= 4 THEN 2
    ELSE IF level <= 8 THEN 5
    ELSE IF level <= 12 THEN 8
    ELSE IF level <= 16 THEN 13
    ELSE 20

-----------------------------------------------------------------------------
(* services/xp_encounter_generator.py *)

\* A float that is a ratio of two naturals.
FloatLeqInt(f, n) == f.num <= n * f.den

IsDigits(s) == s # <<>> /\ \A i \in 1..Len(s) : \E k \in 1..10 : DigitChar[k] = s[i]
RECURSIVE StrToNat(_)
StrToNat(s) ==
    IF s = <<>> THEN 0
    ELSE 10 * StrToNat(SubSeq(s, 1, Len(s) - 1)) + (CharCode(s[Len(s)]) - 48)

\* "n/d" is n / d and "n" is n; whatever makes split, float or the division
\* raise gives 0.0.  Ratings are written with digits and "/" only.
_cr_to_float(cr) ==
    LET zero == [num |-> 0, den |-> 1]
        slashes == {i \in 1..Len(cr) : cr[i] = "/"}
    IN  IF slashes # {}
        THEN IF Cardinality(slashes) # 1 THEN zero
             ELSE LET i == CHOOSE k \in slashes : TRUE
                      num == SubSeq(cr, 1, i - 1)
                      denom == SubSeq(cr, i + 1, Len(cr))
                  IN  IF IsDigits(num) /\ IsDigits(denom) /\ StrToNat(denom) # 0
                      THEN [num |-> StrToNat(num), den |-> StrToNat(denom)]
                      ELSE zero
        ELSE IF IsDigits(cr) THEN [num |-> StrToNat(cr), den |-> 1] ELSE zero

\* data/xp_budgets.py, cr_to_xp.

\* CR_TO_XP: the table values of CR 1/8, 1/4, 1/2 and of CR 0..30.
CR_TO_XP ==
    << <<CrFrac(1, 8), 25>>, <<CrFrac(1, 4), 50>>, <<CrFrac(1, 2), 100>> >> \o
    [i \in 1..31 |->
        <<CrInt(i - 1),
          <<10, 200, 450, 700, 1100, 1800, 2300, 2900, 3900, 5000, 5900, 7200,
            8400, 10000, 11500, 13000, 15000, 18000, 20000, 22000, 25000, 33000,
            41000, 50000, 62000, 75000, 90000, 105000, 120000, 135000,
            155000>>[i]>>]

\* str.strip() of spaces.
RECURSIVE str_strip(_)
str_strip(s) ==
    IF s = <<>> THEN s
    ELSE IF Head(s) = " " THEN str_strip(Tail(s))
    ELSE IF s[Len(s)] = " " THEN str_strip(SubSeq(s, 1, Len(s) - 1))
    ELSE s

\* Floats are ratios of naturals rounded, after every operation, to the
\* nearest value with a mantissa of FloatBits bits, ties to even.  The width
\* is scaled from 53 bits and keeps its parity, so that 1/3 rounds the same way.
FloatBits == 13
RECURSIVE FloatShift(_, _, _)
FloatShift(n, d, s) ==
    LET N == IF s >= 0 THEN n * 2 ^ s ELSE n
        D == IF s >= 0 THEN d ELSE d * 2 ^ (0 - s)
    IN  IF N < 2 ^ (FloatBits - 1) * D THEN FloatShift(n, d, s + 1)
        ELSE IF N >= 2 ^ FloatBits * D THEN FloatShift(n, d, s - 1)
        ELSE s
\* The float nearest to n / d; n / d itself when it is one.
FloatRound(n, d) ==
    IF n = 0 THEN [num |-> 0, den |-> 1]
    ELSE LET s == FloatShift(n, d, 0)
             N == IF s >= 0 THEN n * 2 ^ s ELSE n
             D == IF s >= 0 THEN d ELSE d * 2 ^ (0 - s)
             q == N \div D
             rem == N % D
             m == IF 2 * rem > D \/ (2 * rem = D /\ q % 2 = 1) THEN q + 1 ELSE q
         IN  IF rem = 0 THEN [num |-> n, den |-> d]
             ELSE IF s >= 0 THEN [num |-> m, den |-> 2 ^ s]
             ELSE [num |-> m * 2 ^ (0 - s), den |-> 1]

\* The integer part of a square root, by bisection.
RECURSIVE ISqrt(_, _, _)
ISqrt(x, lo, hi) ==
    IF lo = hi THEN lo
    ELSE LET mid == (lo + hi + 1) \div 2
         IN  IF mid * mid <= x THEN ISqrt(x, mid, hi) ELSE ISqrt(x, lo, mid - 1)

\* cr_to_xp as it would be without the estimate for a CR outside the table.
cr_to_xp_table_only(cr) ==
    LET cr_str == str_strip(cr)
        hits == {i \in 1..Len(CR_TO_XP) : CR_TO_XP[i][1] = cr_str}
    IN  IF hits = {} THEN 10 ELSE CR_TO_XP[CHOOSE i \in hits : TRUE][2]

\* The strings are made of digits, "/", letters and spaces.  x ** 1.5 is taken
\* at its real value: int(200 * x ** 1.5) is the integer part of
\* sqrt(40000 * x^3).
cr_to_xp(cr) ==
    LET cr_str == str_strip(cr)
        hits == {i \in 1..Len(CR_TO_XP) : CR_TO_XP[i][1] = cr_str}
        slashes == {i \in 1..Len(cr_str) : cr_str[i] = "/"}
        i == CHOOSE k \in slashes : TRUE
        numerator == SubSeq(cr_str, 1, i - 1)
        denominator == SubSeq(cr_str, i + 1, Len(cr_str))
        parses == IF slashes # {}
                  THEN /\ Cardinality(slashes) = 1
                       /\ IsDigits(numerator) /\ IsDigits(denominator)
                       /\ StrToNat(denominator) # 0
                  ELSE IsDigits(cr_str)
        cr_float == IF slashes # {}
                    THEN FloatRound(StrToNat(numerator), StrToNat(denominator))
                    ELSE [num |-> StrToNat(cr_str), den |-> 1]
        product == FloatRound(75 * cr_float.num, cr_float.den)
        sum == FloatRound(25 * product.den + product.num, product.den)
        estimated_xp ==
            IF cr_float.num < cr_float.den
            THEN sum.num \div sum.den
            ELSE ISqrt((40000 * cr_float.num * cr_float.num * cr_float.num)
                           \div (cr_float.den * cr_float.den * cr_float.den),
                       0, 46340)
    IN  IF cr = <<>> THEN 10
        ELSE IF hits # {} THEN CR_TO_XP[CHOOSE k \in hits : TRUE][2]
        ELSE IF ~parses THEN 10
        ELSE Max2(10, estimated_xp)

\* [m for m in ms if _cr_to_float(m["cr"]) <= get_tier_max_cr(level)]
WithinTier(ms, level) ==
    SelectSeq(ms, LAMBDA m : FloatLeqInt(_cr_to_float(m.cr), get_tier_max_cr(level)))

\* sorted(s, key=xp, reverse=True): stable, equal xp keep their catalog order.
InsertByXp(sorted, m) ==
    LET k == Cardinality({i \in 1..Len(sorted) : sorted[i].xp >= m.xp})
    IN  SubSeq(sorted, 1, k) \o <<m>> \o SubSeq(sorted, k + 1, Len(sorted))
RECURSIVE SortedByXpDesc(_)
SortedByXpDesc(s) ==
    IF s = <<>> THEN <<>>
    ELSE InsertByXp(SortedByXpDesc(SubSeq(s, 1, Len(s) - 1)), s[Len(s)])

\* int(x * 1.2), int(x * 0.6), int(x * 0.4): equal to these integer forms for
\* every x the budgets can give (checked on the floats for x up to 200000).
IntTimes12(x) == (x * 6) \div 5
IntTimes06(x) == (x * 3) \div 5
IntTimes04(x) == (x * 2) \div 5

\* _find_best_creature as it would be without the 20% allowance over the target.
_find_best_creature_strict(ms, xp, level) ==
    LET valid == WithinTier(ms, level)
    IN  IF valid = <<>> THEN PyNone
        ELSE LET valid_sorted == SortedByXpDesc(valid)
                 fits == {i \in 1..Len(valid_sorted) : valid_sorted[i].xp <= xp}
             IN  IF fits # {}
                 THEN valid_sorted[CHOOSE i \in fits : \A j \in fits : i <= j]
                 ELSE valid_sorted[Len(valid_sorted)]

\* _find_best_creature as it would be with an allowance of 50% over the target.
_find_best_creature_generous(ms, xp, level) ==
    LET valid == WithinTier(ms, level)
    IN  IF valid = <<>> THEN PyNone
        ELSE LET valid_sorted == SortedByXpDesc(valid)
                 max_xp == (xp * 3) \div 2
                 fits == {i \in 1..Len(valid_sorted) : valid_sorted[i].xp <= max_xp}
             IN  IF fits # {}
                 THEN valid_sorted[CHOOSE i \in fits : \A j \in fits : i <= j]
                 ELSE valid_sorted[Len(valid_sorted)]

_find_best_creature(ms, xp, level) ==
    LET valid == WithinTier(ms, level)
    IN  IF valid = <<>> THEN PyNone
        ELSE LET valid_sorted == SortedByXpDesc(valid)
                 max_xp == IntTimes12(xp)
                 fits == {i \in 1..Len(valid_sorted) : valid_sorted[i].xp <= max_xp}
             IN  IF fits # {}
                 THEN valid_sorted[CHOOSE i \in fits : \A j \in fits : i <= j]
                 ELSE valid_sorted[Len(valid_sorted)]

\* _find_4_minions as it would be if it fitted one creature to the whole
\* amount instead of a quarter of it.
_find_4_minions_whole(ms, total_xp, level) ==
    LET creature == _find_best_creature(ms, total_xp, level)
    IN  IF creature = PyNone THEN <<>> ELSE [i \in 1..4 |-> creature]

_find_4_minions(ms, total_xp, level) ==
    LET per_creature == total_xp \div 4
        creature == _find_best_creature(ms, per_creature, level)
    IN  IF creature = PyNone THEN <<>> ELSE [i \in 1..4 |-> creature]

\* min(s, key=lambda m: abs(m["xp"] - target)): the first of the closest.
\* Called on an empty list, min raises ValueError.
ClosestByXp(s, target) ==
    LET d(i) == Abs(s[i].xp - target)
    IN  s[CHOOSE i \in 1..Len(s) :
              \A j \in 1..Len(s) : d(i) < d(j) \/ (d(i) = d(j) /\ i <= j)]

\* A mounted unit as it would be if it took its CR from the mount.
MountedUnit_mount_cr(rider, mount) ==
    [name |-> <<rider.name, " on ", mount.name>>, cr |-> mount.cr,
     xp |-> rider.xp + mount.xp, type |-> rider.type, is_mounted |-> TRUE,
     rider |-> rider, mount |-> mount]

MountedUnit(rider, mount) ==
    [name |-> <<rider.name, " on ", mount.name>>, cr |-> rider.cr,
     xp |-> rider.xp + mount.xp, type |-> rider.type, is_mounted |-> TRUE,
     rider |-> rider, mount |-> mount]

\* _find_mounted_units as it would be without the check for empty rider or
\* mount lists: min() of an empty list raises ValueError.
_find_mounted_units_unguarded(g, ms, total_xp, level, e) ==
    LET c == random_randint(g, 1, 4, e)
        per_unit == total_xp \div c.val
        valid_riders == SelectSeq(WithinTier(ms, level), LAMBDA m : m.can_ride)
        valid_mounts == SelectSeq(WithinTier(ms, level), LAMBDA m : m.can_be_mount)
    IN  IF valid_riders = <<>> \/ valid_mounts = <<>>
        THEN [raised |-> TRUE, val |-> <<>>, rng |-> c.rng, draws |-> <<c.val>>]
        ELSE [raised |-> FALSE,
              val |-> [i \in 1..c.val |->
                          MountedUnit(ClosestByXp(valid_riders, IntTimes06(per_unit)),
                                      ClosestByXp(valid_mounts, IntTimes04(per_unit)))],
              rng |-> c.rng, draws |-> <<c.val>>]

\* The units, the generator after the unit-count draw, and that draw.
_find_mounted_units(g, ms, total_xp, level, e) ==
    LET c == random_randint(g, 1, 4, e)
        units_count == c.val
        per_unit == total_xp \div units_count
        rider_xp == IntTimes06(per_unit)
        mount_xp == IntTimes04(per_unit)
        valid_riders == SelectSeq(WithinTier(ms, level), LAMBDA m : m.can_ride)
        valid_mounts == SelectSeq(WithinTier(ms, level), LAMBDA m : m.can_be_mount)
    IN  IF valid_riders = <<>> \/ valid_mounts = <<>>
        THEN [raised |-> FALSE, val |-> <<>>, rng |-> c.rng, draws |-> <<c.val>>]
        ELSE LET rider == ClosestByXp(valid_riders, rider_xp)
                 mount == ClosestByXp(valid_mounts, mount_xp)
             IN  [raised |-> FALSE,
                  val |-> [i \in 1..units_count |-> MountedUnit(rider, mount)],
                  rng |-> c.rng, draws |-> <<c.val>>]

\* _spend_bucket as it would be if the fallback kept the tag "minions".
_spend_bucket_same_tag(g, ms, xp, level, ep, en) ==
    LET p == random_choice(g, <<"boss", "minions", "mounted">>, ep)
        creature == _find_best_creature(ms, xp, level)
        mounted == _find_mounted_units(p.rng, ms, xp, level, en)
    IN  CASE p.val = "boss" ->
               [raised |-> FALSE,
                creatures |-> IF creature = PyNone THEN <<>> ELSE <<creature>>,
                pattern |-> "boss", rng |-> p.rng, draws |-> <<p.val>>]
          [] p.val = "minions" ->
               [raised |-> FALSE, creatures |-> _find_4_minions(ms, xp, level),
                pattern |-> "minions", rng |-> p.rng, draws |-> <<p.val>>]
          [] p.val = "mounted" ->
               [raised |-> FALSE,
                creatures |-> IF mounted.val # <<>> THEN mounted.val
                              ELSE _find_4_minions(ms, xp, level),
                pattern |-> IF mounted.val # <<>> THEN "mounted" ELSE "minions",
                rng |-> mounted.rng, draws |-> <<p.val>> \o mounted.draws]

\* The bucket's creatures and pattern; ep and en are the entropy outcomes of
\* the pattern choice and of the unit count.
_spend_bucket(g, ms, xp, level, ep, en) ==
    LET p == random_choice(g, <<"boss", "minions", "mounted">>, ep)
    IN  CASE p.val = "boss" ->
               LET creature == _find_best_creature(ms, xp, level)
               IN  [raised |-> FALSE,
                    creatures |-> IF creature = PyNone THEN <<>> ELSE <<creature>>,
                    pattern |-> "boss", rng |-> p.rng, draws |-> <<p.val>>]
          [] p.val = "minions" ->
               [raised |-> FALSE, creatures |-> _find_4_minions(ms, xp, level),
                pattern |-> "minions", rng |-> p.rng, draws |-> <<p.val>>]
          [] p.val = "mounted" ->
               LET mounted == _find_mounted_units(p.rng, ms, xp, level, en)
               IN  IF mounted.raised
                   THEN [raised |-> TRUE, creatures |-> <<>>, pattern |-> "mounted",
                         rng |-> mounted.rng, draws |-> <<p.val>> \o mounted.draws]
                   ELSE IF mounted.val # <<>>
                   THEN [raised |-> FALSE, creatures |-> mounted.val,
                         pattern |-> "mounted", rng |-> mounted.rng,
                         draws |-> <<p.val>> \o mounted.draws]
                   ELSE [raised |-> FALSE,
                         creatures |-> _find_4_minions(ms, xp, level),
                         pattern |-> "minions_fallback", rng |-> mounted.rng,
                         draws |-> <<p.val>> \o mounted.draws]

\* A result of the XP generator: as Returned and Raised, with the draws made.
XPResult(status, value, g, draws) ==
    [status |-> status, value |-> value, rng |-> g, draws |-> draws]

\* The end of _generate_split as it would be if the odd unit of the budget
\* went to bucket 2.
SplitResult_odd_unit_kept(b1, b2, total_xp, level, difficulty) ==
    LET all_creatures == b1.creatures \o b2.creatures
    IN  XPResult("returned",
            [pattern |-> "split", creatures |-> all_creatures,
             total_xp |-> SumSeq([i \in 1..Len(all_creatures) |-> all_creatures[i].xp]),
             budget |-> total_xp, player_level |-> level, difficulty |-> difficulty,
             bucket_breakdown |->
                 [bucket1 |-> [pattern |-> b1.pattern, xp |-> total_xp \div 2,
                               creatures |-> Len(b1.creatures)],
                  bucket2 |-> [pattern |-> b2.pattern,
                               xp |-> total_xp - (total_xp \div 2),
                               creatures |-> Len(b2.creatures)]]],
            b2.rng, b1.draws \o b2.draws)

\* The end of _generate_split: combine the two buckets and report.
SplitResult(b1, b2, total_xp, level, difficulty) ==
    LET bucket1_xp == total_xp \div 2
        bucket2_xp == total_xp \div 2
        all_creatures == b1.creatures \o b2.creatures
        actual_xp == SumSeq([i \in 1..Len(all_creatures) |-> all_creatures[i].xp])
    IN  IF b1.raised THEN XPResult("raised", [error |-> "ValueError"], b1.rng, b1.draws)
        ELSE IF b2.raised
        THEN XPResult("raised", [error |-> "ValueError"], b2.rng, b1.draws \o b2.draws)
        ELSE XPResult("returned",
                 [pattern |-> "split", creatures |-> all_creatures,
                  total_xp |-> actual_xp, budget |-> total_xp,
                  player_level |-> level, difficulty |-> difficulty,
                  bucket_breakdown |->
                      [bucket1 |-> [pattern |-> b1.pattern, xp |-> bucket1_xp,
                                    creatures |-> Len(b1.creatures)],
                       bucket2 |-> [pattern |-> b2.pattern, xp |-> bucket2_xp,
                                    creatures |-> Len(b2.creatures)]]],
                 b2.rng, b1.draws \o b2.draws)

\* _generate_split once bucket 1 is spent: bucket 2 draws from the generator
\* bucket 1 left.
SplitSecondBucket(b1, ms, total_xp, level, difficulty, es) ==
    SplitResult(b1, _spend_bucket(b1.rng, ms, total_xp \div 2, level, es.p2, es.n2),
                total_xp, level, difficulty)

\* _generate_split as it would be if it reported the budget of its two
\* buckets as the XP achieved.
_generate_split_nominal(g, ms, total_xp, level, difficulty, es) ==
    LET b1 == _spend_bucket(g, ms, total_xp \div 2, level, es.p1, es.n1)
        b2 == _spend_bucket(b1.rng, ms, total_xp \div 2, level, es.p2, es.n2)
    IN  XPResult("returned",
            [pattern |-> "split", creatures |-> b1.creatures \o b2.creatures,
             total_xp |-> (total_xp \div 2) + (total_xp \div 2), budget |-> total_xp,
             player_level |-> level, difficulty |-> difficulty,
             bucket_breakdown |->
                 [bucket1 |-> [pattern |-> b1.pattern, xp |-> total_xp \div 2,
                               creatures |-> Len(b1.creatures)],
                  bucket2 |-> [pattern |-> b2.pattern, xp |-> total_xp \div 2,
                               creatures |-> Len(b2.creatures)]]],
            b2.rng, b1.draws \o b2.draws)

_generate_split(g, ms, total_xp, level, difficulty, es) ==
    SplitSecondBucket(_spend_bucket(g, ms, total_xp \div 2, level, es.p1, es.n1),
                      ms, total_xp, level, difficulty, es)

_generate_legendary(g, ms, xp, level, difficulty, es) ==
    LET creature == _find_best_creature(ms, xp, level)
    IN  IF creature = PyNone
        THEN _generate_split(g, ms, xp, level, difficulty, es)
        ELSE XPResult("returned",
                 [pattern |-> "legendary", creatures |-> <<creature>>,
                  total_xp |-> creature.xp, budget |-> xp, player_level |-> level,
                  difficulty |-> difficulty, bucket_breakdown |-> PyNone],
                 g, <<>>)

\* generate_encounter as it would be if it drew before looking the budget up.
xp_generate_encounter_draw_first(g, ms, player_level, difficulty, es) ==
    LET roll == random_random(g, es.u)
        total_xp == get_xp_budget(player_level, difficulty)
    IN  IF total_xp.raised
        THEN XPResult("raised", [error |-> "ValueError"], roll.rng, <<roll.val>>)
        ELSE LET res == _generate_split(roll.rng, ms, total_xp.val, player_level,
                                        difficulty, es)
             IN  [res EXCEPT !.draws = <<roll.val>> \o @]

\* generate_encounter as it would be with the legendary path taken at <= 0.1.
xp_generate_encounter_inclusive(g, ms, player_level, difficulty, es) ==
    LET total_xp == get_xp_budget(player_level, difficulty)
    IN  IF total_xp.raised THEN XPResult("raised", [error |-> "ValueError"], g, <<>>)
        ELSE LET roll == random_random(g, es.u)
                 res == IF roll.val <= 10
                        THEN _generate_legendary(roll.rng, ms, total_xp.val,
                                                 player_level, difficulty, es)
                        ELSE _generate_split(roll.rng, ms, total_xp.val,
                                             player_level, difficulty, es)
             IN  [res EXCEPT !.draws = <<roll.val>> \o @]

\* XPEncounterGenerator.generate_encounter; es holds the entropy outcomes of
\* its draws: u (random), p1, n1 (bucket 1), p2, n2 (bucket 2).
xp_generate_encounter(g, ms, player_level, difficulty, es) ==
    LET total_xp == get_xp_budget(player_level, difficulty)
    IN  IF total_xp.raised THEN XPResult("raised", [error |-> "ValueError"], g, <<>>)
        ELSE LET roll == random_random(g, es.u)
                 res == IF roll.val < 10
                        THEN _generate_legendary(roll.rng, ms, total_xp.val,
                                                 player_level, difficulty, es)
                        ELSE _generate_split(roll.rng, ms, total_xp.val,
                                             player_level, difficulty, es)
             IN  [res EXCEPT !.draws = <<roll.val>> \o @]

-----------------------------------------------------------------------------
(* The caller's side of every call: `call` holds the operation and its      *)
(* arguments from the moment it is made until Return collects the result.   *)

NoCall == [op |-> "none"]
NoResult == [status |-> "none"]
NoThreads == <<>>
NoObservation == [seen |-> FALSE]

Idle == call = NoCall /\ last = NoResult /\ thr = NoThreads

\* The result of a call, without the generator it leaves.
Outcome(res) == [status |-> res.status, value |-> res.value]

Return ==
    /\ call # NoCall
    /\ last # NoResult
    /\ call' = NoCall
    /\ last' = NoResult
    /\ UNCHANGED <<hashSalt, rng, monsters, thr, observed, saves_db>>

-----------------------------------------------------------------------------
(* One interpreter process serving positional calls one after the other.   *)

GenerateEncounter ==
    /\ Idle
    /\ \E q \in CoordRange, r \in CoordRange, t \in TerrainType, l \in PartyLevels :
            \E res \in {generate_encounter(rng, hashSalt, q, r, t, l)} :
                /\ call' = [op |-> "generate_encounter", q |-> q, r |-> r,
                            terrain_type |-> t, party_level |-> l]
                /\ last' = Outcome(res)
                /\ rng' = res.rng
                /\ UNCHANGED <<hashSalt, monsters, thr, observed, saves_db>>

CheckForEncounterOnTravel ==
    /\ Idle
    /\ \E fq \in CoordRange, fr \in CoordRange, tq \in CoordRange, tr \in CoordRange,
           t \in TerrainType, l \in PartyLevels :
            \E res \in {check_for_encounter_on_travel(rng, hashSalt, fq, fr, tq, tr, t, l)} :
                /\ call' = [op |-> "check_for_encounter_on_travel",
                            from_q |-> fq, from_r |-> fr, to_q |-> tq, to_r |-> tr,
                            terrain_type |-> t, party_level |-> l]
                /\ last' = Outcome(res)
                /\ rng' = res.rng
                /\ UNCHANGED <<hashSalt, monsters, thr, observed, saves_db>>

\* The seeds the routers pass (a position seed) and a few literal ones.
TerrainSeeds ==
    ((0 - 1)..MaxTerrainSeed)
        \cup {_get_position_seed(hashSalt, q, r) : q \in CoordRange, r \in CoordRange}

GetRandomTerrain ==
    /\ Idle
    /\ \E seed \in TerrainSeeds :
            \E res \in {get_random_terrain(seed, 0)} :
                /\ call' = [op |-> "get_random_terrain", seed |-> seed]
                /\ last' = Outcome(res)
                /\ rng' = res.rng
                /\ UNCHANGED <<hashSalt, monsters, thr, observed, saves_db>>

Init ==
    /\ hashSalt \in Salts
    /\ rng = Unseeded
    /\ monsters = BASIC_MONSTERS
    /\ call = NoCall
    /\ last = NoResult
    /\ thr = NoThreads
    /\ observed = NoObservation
    /\ saves_db = <<>>

Next ==
    \/ GenerateEncounter
    \/ CheckForEncounterOnTravel
    \/ GetRandomTerrain
    \/ Return

Spec == Init /\ [][Next]_vars

-----------------------------------------------------------------------------
(* Process runs: the interpreter is started again and again, and draws a   *)
(* new hash salt each time (PYTHONHASHSEED is not set by the repository).  *)
(* An observer outside the process notes one seed it was given.            *)

GetPositionSeed ==
    \E q \in CoordRange, r \in CoordRange :
        /\ Idle
        /\ call' = [op |-> "_get_position_seed", q |-> q, r |-> r]
        /\ last' = [status |-> "returned", value |-> _get_position_seed(hashSalt, q, r)]
        /\ UNCHANGED <<hashSalt, rng, monsters, thr, observed, saves_db>>

Observe ==
    /\ call.op = "_get_position_seed"
    /\ ~observed.seen
    /\ observed' = [seen |-> TRUE, q |-> call.q, r |-> call.r, seed |-> last.value]
    /\ UNCHANGED <<hashSalt, rng, monsters, call, last, thr, saves_db>>

Restart ==
    /\ hashSalt' \in Salts
    /\ rng' = Unseeded
    /\ call' = NoCall
    /\ last' = NoResult
    /\ saves_db' = <<>>
    /\ UNCHANGED <<monsters, thr, observed>>

NextRuns ==
    \/ GetPositionSeed
    \/ Observe
    \/ Restart
    \/ Return

SpecRuns == Init /\ [][NextRuns]_vars

-----------------------------------------------------------------------------
(* The hex coordinate system's static methods, called on their own.        *)

GetHexesInRadius ==
    \E q \in HexRange, r \in HexRange, radius \in Radii :
        /\ Idle
        /\ call' = [op |-> "get_hexes_in_radius", center_q |-> q, center_r |-> r,
                    radius |-> radius]
        /\ last' = [status |-> "returned", value |-> get_hexes_in_radius(q, r, radius)]
        /\ UNCHANGED <<hashSalt, rng, monsters, thr, observed, saves_db>>

GetDistance ==
    \E q1 \in HexRange, r1 \in HexRange, q2 \in HexRange, r2 \in HexRange :
        /\ Idle
        /\ call' = [op |-> "get_distance", q1 |-> q1, r1 |-> r1, q2 |-> q2, r2 |-> r2]
        /\ last' = [status |-> "returned", value |-> get_distance(q1, r1, q2, r2)]
        /\ UNCHANGED <<hashSalt, rng, monsters, thr, observed, saves_db>>

NextHex ==
    \/ GetHexesInRadius
    \/ GetDistance
    \/ Return

SpecHex == Init /\ [][NextHex]_vars

-----------------------------------------------------------------------------
(* Neighbours and directions of the hex coordinate system.                 *)

Directions == (0 - MaxDirection)..MaxDirection

GetNeighbor ==
    \E q \in HexRange, r \in HexRange, direction \in Directions :
        /\ Idle
        /\ call' = [op |-> "get_neighbor", q |-> q, r |-> r, direction |-> direction]
        /\ last' = [status |-> "returned", value |-> get_neighbor(q, r, direction)]
        /\ UNCHANGED <<hashSalt, rng, monsters, thr, observed, saves_db>>

GetAllNeighbors ==
    \E q \in HexRange, r \in HexRange :
        /\ Idle
        /\ call' = [op |-> "get_all_neighbors", q |-> q, r |-> r]
        /\ last' = [status |-> "returned", value |-> get_all_neighbors(q, r)]
        /\ UNCHANGED <<hashSalt, rng, monsters, thr, observed, saves_db>>

\* The target is any hex up to two steps outside the start's range, so that
\* neighbours, the start itself and hexes further away are all asked about.
GetDirectionIndex ==
    \E fq \in HexRange, fr \in HexRange,
       tq \in (0 - MaxHex - 2)..(MaxHex + 2), tr \in (0 - MaxHex - 2)..(MaxHex + 2) :
        /\ Idle
        /\ Abs(tq - fq) <= 2 /\ Abs(tr - fr) <= 2
        /\ call' = [op |-> "get_direction_index", from_q |-> fq, from_r |-> fr,
                    to_q |-> tq, to_r |-> tr]
        /\ last' = [status |-> "returned",
                    value |-> get_direction_index(fq, fr, tq, tr)]
        /\ UNCHANGED <<hashSalt, rng, monsters, thr, observed, saves_db>>

GetDirectionName ==
    \E direction \in Directions :
        /\ Idle
        /\ call' = [op |-> "get_direction_name", direction |-> direction]
        /\ last' = [status |-> "returned", value |-> get_direction_name(direction)]
        /\ UNCHANGED <<hashSalt, rng, monsters, thr, observed, saves_db>>

NextNav ==
    \/ GetNeighbor
    \/ GetAllNeighbors
    \/ GetDirectionIndex
    \/ GetDirectionName
    \/ Return

SpecNav == Init /\ [][NextNav]_vars

-----------------------------------------------------------------------------
(* The tables of data/xp_budgets.py, read through their functions.         *)

\* Ratings asked about: every table key, ratings outside the table on both
\* sides of 1, a padded key, and strings that are no rating.
CrStrings ==
    {CR_TO_XP[i][1] : i \in 1..Len(CR_TO_XP)}
        \cup {CrFrac(1, 3), CrFrac(2, 3), CrFrac(3, 4), CrFrac(1, 16), CrFrac(3, 2),
              CrInt(31), CrFrac(1, 0), <<"1", "/", "2", "/", "3">>,
              <<" ", "1", "/", "4", " ">>, <<"x">>, <<>>}

CrToXp ==
    /\ Idle
    /\ \E cr \in CrStrings :
        /\ call' = [op |-> "cr_to_xp", cr |-> cr]
        /\ last' = [status |-> "returned", value |-> cr_to_xp(cr)]
        /\ UNCHANGED <<hashSalt, rng, monsters, thr, observed, saves_db>>

GetXpBudget ==
    /\ Idle
    /\ \E level \in 0..MaxLevelInput, difficulty \in
            {KeyLow, KeyModerate, KeyHigh, <<"H", "I", "G", "H">>,
             <<"e", "x", "t", "r", "e", "m", "e">>} :
        \E res \in {get_xp_budget(level, difficulty)} :
            /\ call' = [op |-> "get_xp_budget", level |-> level,
                        difficulty |-> difficulty]
            /\ last' = IF res.raised
                       THEN [status |-> "raised", value |-> [error |-> "ValueError"]]
                       ELSE [status |-> "returned", value |-> res.val]
            /\ UNCHANGED <<hashSalt, rng, monsters, thr, observed, saves_db>>

NextTables ==
    \/ CrToXp
    \/ GetXpBudget
    \/ Return

SpecTables == Init /\ [][NextTables]_vars

-----------------------------------------------------------------------------
(* The XP generator: built over a catalog, then called again and again.    *)
(* Nothing here seeds the global generator, so every draw is entropy's.    *)

\* The catalogs a generator is built over: the default one, the empty one,
\* and selections of the default one without riders, without mounts, with
\* nothing below the highest tier, and with riders and mounts of several prices.
Selection(idx) == [i \in 1..Len(idx) |-> BASIC_MONSTERS[idx[i]]]
Catalogs ==
    {BASIC_MONSTERS, <<>>, Selection(<<4, 13, 16>>), Selection(<<3, 13>>),
     Selection(<<30, 34>>), Selection(<<2, 4, 7, 18, 13>>)}

PlayerLevels == 0..MaxLevelInput

Difficulties ==
    {KeyLow, KeyModerate, KeyHigh, <<"H", "I", "G", "H">>,
     <<"e", "x", "t", "r", "e", "m", "e">>}

\* What random.random() gives the generator: values on both sides of 0.1.
RollOutcomes == {0, 1, 2, 3, 19}

NewXPEncounterGenerator ==
    /\ Idle
    /\ monsters' \in Catalogs
    /\ UNCHANGED <<hashSalt, rng, call, last, thr, observed, saves_db>>

\* The unit count is drawn only for a bucket whose pattern is "mounted".
UnitCountEntropy(g, p) == IF p = 2 THEN Entropy(g, 4) ELSE {0}

XPGenerateEncounter ==
    /\ Idle
    /\ \E level \in PlayerLevels, difficulty \in Difficulties, u \in RollOutcomes,
          p1 \in Entropy(rng, 3), p2 \in Entropy(rng, 3) :
        \E n1 \in UnitCountEntropy(rng, p1), n2 \in UnitCountEntropy(rng, p2) :
           \E res \in {xp_generate_encounter(rng, monsters, level, difficulty,
                          [u |-> u, p1 |-> p1, n1 |-> n1, p2 |-> p2, n2 |-> n2])} :
               /\ call' = [op |-> "xp_generate_encounter", player_level |-> level,
                           difficulty |-> difficulty]
               /\ last' = [status |-> res.status, value |-> res.value,
                           draws |-> res.draws]
               /\ rng' = res.rng
    /\ UNCHANGED <<hashSalt, monsters, thr, observed, saves_db>>

\* The generator hashes no string: one salt stands for all.
InitXP == Init /\ hashSalt = 0

NextXP ==
    \/ NewXPEncounterGenerator
    \/ XPGenerateEncounter
    \/ Return

SpecXP == InitXP /\ [][NextXP]_vars

-----------------------------------------------------------------------------
(* One process serving positional calls and XP calls: routers/combat.py    *)
(* holds an EncounterService and an XPEncounterGenerator, and both draw    *)
(* from the generator of the random module.                                *)

XPGenerateEncounterInProcess ==
    /\ rng.pos <= MaxRngPos
    /\ XPGenerateEncounter

NextMixed ==
    \/ GenerateEncounter
    \/ GetRandomTerrain
    \/ XPGenerateEncounterInProcess
    \/ Return

SpecMixed == Init /\ [][NextMixed]_vars

-----------------------------------------------------------------------------
(* routers/saves.py: the endpoints of the save store.  Each is a coroutine *)
(* without an await, so the event loop runs it whole.                      *)

CreateSave ==
    /\ Idle
    /\ Len(saves_db) < MaxSaves
    /\ \E name \in {"first", "second"}, character_name \in {"Hero"}, level \in {1},
          now \in 0..MaxClock :
        LET save == [id |-> <<"s", "a", "v", "e", "_">> \o NatToStr(Len(saves_db) + 1),
                     name |-> name, created_at |-> now,
                     character_name |-> character_name, level |-> level]
        IN  /\ call' = [op |-> "create_save", name |-> name,
                        character_name |-> character_name, level |-> level]
            /\ last' = [status |-> "returned",
                        value |-> [status |-> "saved", save |-> save]]
            /\ saves_db' = Append(saves_db, save)
    /\ UNCHANGED <<hashSalt, rng, monsters, thr, observed>>

DeleteSave ==
    /\ Idle
    /\ \E n \in 1..(MaxSaves + 1) :
        LET save_id == <<"s", "a", "v", "e", "_">> \o NatToStr(n)
        IN  /\ call' = [op |-> "delete_save", save_id |-> save_id]
            /\ last' = [status |-> "returned", value |-> [status |-> "deleted"]]
            /\ saves_db' = SelectSeq(saves_db, LAMBDA s : s.id # save_id)
    /\ UNCHANGED <<hashSalt, rng, monsters, thr, observed>>

GetSave ==
    /\ Idle
    /\ \E n \in 1..(MaxSaves + 1) :
        LET save_id == <<"s", "a", "v", "e", "_">> \o NatToStr(n)
            hits == {i \in 1..Len(saves_db) : saves_db[i].id = save_id}
        IN  /\ call' = [op |-> "get_save", save_id |-> save_id]
            /\ last' = [status |-> "returned",
                        value |-> IF hits = {} THEN [error |-> "Save not found"]
                                  ELSE saves_db[CHOOSE i \in hits :
                                                    \A j \in hits : i <= j]]
    /\ UNCHANGED <<hashSalt, rng, monsters, thr, observed, saves_db>>

ListSaves ==
    /\ Idle
    /\ call' = [op |-> "list_saves"]
    /\ last' = [status |-> "returned", value |-> [saves |-> saves_db]]
    /\ UNCHANGED <<hashSalt, rng, monsters, thr, observed, saves_db>>

NextSaves ==
    \/ CreateSave
    \/ DeleteSave
    \/ GetSave
    \/ ListSaves
    \/ Return

SpecSaves == Init /\ [][NextSaves]_vars

-----------------------------------------------------------------------------
(* _find_best_creature on its own, over the catalogs a generator is built  *)
(* over and the targets the generator gives it: a budget (legendary), half *)
(* a budget (boss) and an eighth of a budget (minions).                    *)

Budgets == {BudgetRows[l][k] : l \in 1..Len(BudgetRows), k \in 1..3}
BestFitTargets == {0} \cup {b \div k : b \in Budgets, k \in {1, 2, 8}}

FindBestCreature ==
    /\ Idle
    /\ \E xp \in BestFitTargets, level \in 1..20 :
        /\ call' = [op |-> "_find_best_creature", xp |-> xp, level |-> level]
        /\ last' = [status |-> "returned",
                    value |-> _find_best_creature(monsters, xp, level)]
    /\ UNCHANGED <<hashSalt, rng, monsters, thr, observed, saves_db>>

NextFind ==
    \/ NewXPEncounterGenerator
    \/ FindBestCreature
    \/ Return

SpecFind == InitXP /\ [][NextFind]_vars

-----------------------------------------------------------------------------
(* Two threads of one process inside generate_encounter at once, for        *)
(* different hexes.  Each call to the random module is one step; the        *)
(* module's generator, rng, is the one both threads use.                    *)

Hexes == CoordRange \X CoordRange

Thread(h, terrain_type) ==
    [pc |-> "seed", q |-> h[1], r |-> h[2], terrain_type |-> terrain_type,
     party_level |-> 1, encounter_type |-> PyNone, dice_left |-> 0, total |-> 0,
     out |-> PyNone]

Spawn ==
    /\ Idle
    /\ \E h1 \in Hexes, h2 \in Hexes, t \in TerrainType :
        /\ h1 # h2
        /\ thr' = <<Thread(h1, t), Thread(h2, t)>>
    /\ UNCHANGED <<hashSalt, rng, monsters, call, last, observed, saves_db>>

\* seed = self._get_position_seed(q, r); random.seed(seed)
Reseed ==
    \E t \in DOMAIN thr :
        /\ thr[t].pc = "seed"
        /\ rng' = random_seed(_get_position_seed(hashSalt, thr[t].q, thr[t].r))
        /\ thr' = [thr EXCEPT ![t].pc = "rate"]
        /\ UNCHANGED <<hashSalt, monsters, call, last, observed, saves_db>>

\* if random.random() >= encounter_rate: return None
RateDraw ==
    \E t \in DOMAIN thr :
        /\ thr[t].pc = "rate"
        /\ \E roll \in {random_random(rng, 0)} :
            /\ rng' = roll.rng
            /\ thr' = [thr EXCEPT ![t].pc =
                          IF roll.val >= get_encounter_rate(thr[t].terrain_type)
                          THEN "done" ELSE "type"]
        /\ UNCHANGED <<hashSalt, monsters, call, last, observed, saves_db>>

\* encounter_type = self._get_encounter_type_for_terrain(terrain_type)
TypeChoice ==
    \E t \in DOMAIN thr :
        /\ thr[t].pc = "type"
        /\ \E ty \in {_get_encounter_type_for_terrain(rng, thr[t].terrain_type, 0)} :
            /\ rng' = ty.rng
            /\ thr' = [thr EXCEPT ![t].pc = "dice",
                                  ![t].encounter_type = ty.val,
                                  ![t].dice_left = distance_formulas(thr[t].terrain_type)[1]]
        /\ UNCHANGED <<hashSalt, monsters, call, last, observed, saves_db>>

\* One random.randint(1, die_size) of calculate_encounter_distance; after the
\* last one the call builds its dict and returns.
DiceRoll ==
    \E t \in DOMAIN thr :
        /\ thr[t].pc = "dice"
        /\ \E d \in {random_randint(rng, 1, distance_formulas(thr[t].terrain_type)[2], 0)} :
            LET me == thr[t]
                total == me.total + d.val
                distance == get_distance(0, 0, me.q, me.r)
            IN  /\ rng' = d.rng
                /\ thr' = IF me.dice_left > 1
                          THEN [thr EXCEPT ![t].total = total,
                                           ![t].dice_left = me.dice_left - 1]
                          ELSE [thr EXCEPT ![t].total = total,
                                           ![t].dice_left = 0,
                                           ![t].pc = "done",
                                           ![t].out =
                                EncounterDict(me.q, me.r, me.terrain_type,
                                    me.encounter_type,
                                    _calculate_encounter_cr(distance, me.terrain_type,
                                                            me.party_level),
                                    distance,
                                    total * distance_formulas(me.terrain_type)[3],
                                    _get_position_seed(hashSalt, me.q, me.r))]
        /\ UNCHANGED <<hashSalt, monsters, call, last, observed, saves_db>>

Join ==
    /\ thr # NoThreads
    /\ \A t \in DOMAIN thr : thr[t].pc = "done"
    /\ thr' = NoThreads
    /\ UNCHANGED <<hashSalt, rng, monsters, call, last, observed, saves_db>>

NextConc ==
    \/ Spawn
    \/ Reseed
    \/ RateDraw
    \/ TypeChoice
    \/ DiceRoll
    \/ Join

SpecConc == Init /\ [][NextConc]_vars

-----------------------------------------------------------------------------
(* _calculate_encounter_cr on its own, over distances far enough from the  *)
(* origin for both clamps to act.                                          *)

CalculateEncounterCr ==
    /\ Idle
    /\ \E distance \in 0..MaxDistance, t \in TerrainType, l \in 1..20 :
        /\ call' = [op |-> "_calculate_encounter_cr", distance |-> distance,
                    terrain_type |-> t, party_level |-> l]
        /\ last' = [status |-> "returned",
                    value |-> _calculate_encounter_cr(distance, t, l)]
    /\ UNCHANGED <<hashSalt, rng, monsters, thr, observed, saves_db>>

NextCR ==
    \/ CalculateEncounterCr
    \/ Return

SpecCR == Init /\ [][NextCR]_vars

-----------------------------------------------------------------------------
(* Claims about the positional encounter service. *)

\* C1: in one process, a generate_encounter call returns what its arguments
\* and the process's hash salt alone determine, whatever calls (positional,
\* travel, get_random_terrain) came before it and left the generator in
\* whatever state: its result is the result of the same call made on a fresh
\* generator.  Hence two calls with identical (q, r, terrain, partyLevel) return
\* identical results: both None, or the same seed, type, CR and spotting distance.
C1_SameArgumentsSameResult ==
    call.op = "generate_encounter" =>
        last = Outcome(generate_encounter(Unseeded, hashSalt, call.q, call.r,
                                          call.terrain_type, call.party_level))

\* A call for a hex away from the origin returned an encounter with its
\* spotting distance.
C1_Witness ==
    /\ call.op = "generate_encounter"
    /\ last.status = "returned"
    /\ last.value # PyNone
    /\ last.value.distance_from_origin > 0
    /\ last.value.encounter_distance_ft > 0

\* C4: check_for_encounter_on_travel raises whenever get_distance(from, to) is
\* not 1 (from = to included), leaving the generator as it was; when the
\* distance is 1 it returns what generate_encounter(to, terrain, partyLevel)
\* returns, and leaves the generator as that call leaves it.
C4_TravelOnlyToAdjacent ==
    [][(call = NoCall /\ call'.op = "check_for_encounter_on_travel") =>
        IF get_distance(call'.from_q, call'.from_r, call'.to_q, call'.to_r) # 1
        THEN /\ last' = [status |-> "raised", value |-> [error |-> "ValueError"]]
             /\ rng' = rng
        ELSE \E alone \in {generate_encounter(rng, hashSalt, call'.to_q, call'.to_r,
                                              call'.terrain_type, call'.party_level)} :
                /\ last' = Outcome(alone)
                /\ rng' = alone.rng]_vars

\* Travel from (0,0) to (1,1), two hexes away, was refused.
C4_Witness ==
    /\ call.op = "check_for_encounter_on_travel"
    /\ <<call.from_q, call.from_r>> = <<0, 0>>
    /\ <<call.to_q, call.to_r>> = <<1, 1>>
    /\ last.status = "raised"

\* C8: _get_position_seed(q, r) is the same integer in every process run.
C8_SeedSameInEveryRun ==
    (/\ observed.seen
     /\ call.op = "_get_position_seed"
     /\ <<call.q, call.r>> = <<observed.q, observed.r>>)
        => last.value = observed.seed

-----------------------------------------------------------------------------
(* Claims about the hex coordinate system. *)

\* C5: for every center, centers with q # 0 included, and every radius >= 0,
\* get_hexes_in_radius returns exactly 3*radius^2 + 3*radius + 1 coordinates,
\* with no duplicates.
C5_RadiusCount ==
    call.op = "get_hexes_in_radius" =>
        /\ Len(last.value) = 3 * call.radius * call.radius + 3 * call.radius + 1
        /\ Cardinality(SeqToSet(last.value)) = Len(last.value)

\* C6: for every center and radius >= 0, the coordinates get_hexes_in_radius
\* returns are exactly those whose get_distance to the center is <= radius.
C6_RadiusIsDisk ==
    call.op = "get_hexes_in_radius" =>
        SeqToSet(last.value) =
            {h \in ((call.center_q - call.radius)..(call.center_q + call.radius))
                   \X ((call.center_r - call.radius)..(call.center_r + call.radius)) :
                get_distance(call.center_q, call.center_r, h[1], h[2]) <= call.radius}

-----------------------------------------------------------------------------
(* Claims about the XP generator. *)

XPCalled == call.op = "xp_generate_encounter"
XPReturned == XPCalled /\ last.status = "returned"
RecognizedDifficulties == {KeyLow, KeyModerate, KeyHigh}

\* C2: for every level, difficulty and outcome of the draws, a split result's
\* total_xp is the sum of the xp fields of the entries of its creature list,
\* a mounted unit counting once with its combined xp.
C2_SplitTotalIsSum ==
    (XPReturned /\ last.value.pattern = "split") =>
        last.value.total_xp =
            SumSeq([i \in 1..Len(last.value.creatures) |-> last.value.creatures[i].xp])

\* A split result with a mounted unit among several entries, whose total is not
\* its budget.
C2_Witness ==
    /\ XPReturned
    /\ last.value.pattern = "split"
    /\ Len(last.value.creatures) >= 2
    /\ last.value.bucket_breakdown.bucket1.pattern = "mounted"
    /\ last.value.creatures[1].xp =
           last.value.creatures[1].rider.xp + last.value.creatures[1].mount.xp
    /\ last.value.total_xp # last.value.budget

\* C3, as the code has it: generate_encounter(level, difficulty) raises
\* ValueError for every level outside 1..20 and for every difficulty whose
\* lower-cased form is not one of low, moderate, high; it raises at the budget
\* lookup, before any draw; and it returns for every other input.
C3_FailsOnInvalidInput ==
    XPCalled =>
        IF \/ call.player_level \notin 1..20
           \/ str_lower(call.difficulty) \notin RecognizedDifficulties
        THEN /\ last.status = "raised"
             /\ last.value = [error |-> "ValueError"]
             /\ last.draws = <<>>
        ELSE last.status = "returned"

\* Level 5 with difficulty "extreme" was refused before any draw.
C3_Witness ==
    /\ XPCalled
    /\ call.player_level = 5
    /\ call.difficulty = <<"e", "x", "t", "r", "e", "m", "e">>
    /\ last.status = "raised"
    /\ last.draws = <<>>

\* C3, as stated: the call fails for every level outside 1..20 and for every
\* difficulty string that is not one of low, moderate, high, before any draw,
\* and succeeds for every other input.
C3_AsStated ==
    XPCalled =>
        IF \/ call.player_level \notin 1..20
           \/ call.difficulty \notin RecognizedDifficulties
        THEN /\ last.status = "raised"
             /\ last.draws = <<>>
        ELSE last.status = "returned"

\* C9: for every level in 1..20, every difficulty in {low, moderate, high},
\* every outcome of the draws and every catalog, the empty one and those
\* without riders or mounts included, generate_encounter returns a result
\* whose pattern is "legendary" or "split" and does not raise.
C9_NeverRaisesOnValidInput ==
    (/\ XPCalled
     /\ call.player_level \in 1..20
     /\ call.difficulty \in RecognizedDifficulties)
        => /\ last.status = "returned"
           /\ last.value.pattern \in {"legendary", "split"}

\* Over a catalog with creatures but no rider, a bucket that drew "mounted"
\* fell back to minions and the call returned.
C9_Witness ==
    /\ XPReturned
    /\ monsters # <<>>
    /\ \A i \in 1..Len(monsters) : ~monsters[i].can_ride
    /\ call.player_level \in 1..20
    /\ call.difficulty \in RecognizedDifficulties
    /\ last.value.pattern = "split"
    /\ last.value.bucket_breakdown.bucket2.pattern = "minions_fallback"
    /\ last.value.creatures # <<>>

\* C10: the first draw decides the pattern.  When it is < 0.1 and the catalog
\* has a creature whose CR is within the level's tier ceiling, the result is
\* "legendary" with exactly one creature, total_xp that creature's xp and no
\* bucket breakdown; when it is < 0.1 and no creature is within the ceiling,
\* or it is >= 0.1, the result is "split".
C10_PatternByFirstDraw ==
    XPReturned =>
        IF last.draws[1] < 10 /\ WithinTier(monsters, call.player_level) # <<>>
        THEN /\ last.value.pattern = "legendary"
             /\ Len(last.value.creatures) = 1
             /\ last.value.total_xp = last.value.creatures[1].xp
             /\ last.value.bucket_breakdown = PyNone
             /\ Len(last.draws) = 1
        ELSE last.value.pattern = "split"

\* A draw below 0.1 over a catalog with nothing within the tier ceiling gave a
\* split result.
C10_Witness ==
    /\ XPReturned
    /\ last.draws[1] < 10
    /\ monsters # <<>>
    /\ WithinTier(monsters, call.player_level) = <<>>
    /\ last.value.pattern = "split"

-----------------------------------------------------------------------------
(* Claims about concurrent positional calls. *)

\* C7: when two generate_encounter calls for different hexes run with their
\* steps interleaved, each returns exactly what it returns when run alone.
C7_ConcurrentCallsReturnAloneResults ==
    \A t \in DOMAIN thr :
        thr[t].pc = "done" =>
            thr[t].out = generate_encounter(Unseeded, hashSalt, thr[t].q, thr[t].r,
                                            thr[t].terrain_type,
                                            thr[t].party_level).value

-----------------------------------------------------------------------------
(* Claims about get_distance. *)

DistanceCalled == call.op = "get_distance"

\* C18: for all hex coordinates a and b, negative components included,
\* get_distance(a, b) equals get_distance(b, a).
C18_DistanceSymmetric ==
    DistanceCalled =>
        last.value = get_distance(call.q2, call.r2, call.q1, call.r1)

\* The distance between two different hexes with negative components.
C18_Witness ==
    /\ DistanceCalled
    /\ call.q1 < 0 /\ call.r2 < 0
    /\ <<call.q1, call.r1>> # <<call.q2, call.r2>>
    /\ last.value = 3

\* C19: get_distance(a, b) is 0 exactly when a = b: 0 for a = b and at least 1
\* for a different from b.
C19_DistanceZeroIffSame ==
    DistanceCalled =>
        IF <<call.q1, call.r1>> = <<call.q2, call.r2>>
        THEN last.value = 0
        ELSE last.value >= 1

\* Two hexes that differ only in their row are one apart.
C19_Witness ==
    /\ DistanceCalled
    /\ call.q1 = call.q2
    /\ call.r2 = call.r1 + 1
    /\ last.value = 1

\* C20: for all hex coordinates a, b and c,
\* get_distance(a, c) <= get_distance(a, b) + get_distance(b, c).
C20_DistanceTriangle ==
    DistanceCalled =>
        \A bq \in HexRange, br \in HexRange :
            last.value <= get_distance(call.q1, call.r1, bq, br)
                              + get_distance(bq, br, call.q2, call.r2)

\* A distance of 2 or more, met with equality through a hex between the two
\* and exceeded through a hex off the way.
C20_Witness ==
    /\ DistanceCalled
    /\ last.value >= 2
    /\ \E bq \in HexRange, br \in HexRange :
        /\ <<bq, br>> \notin {<<call.q1, call.r1>>, <<call.q2, call.r2>>}
        /\ last.value = get_distance(call.q1, call.r1, bq, br)
                            + get_distance(bq, br, call.q2, call.r2)
    /\ \E bq \in HexRange, br \in HexRange :
        last.value < get_distance(call.q1, call.r1, bq, br)
                         + get_distance(bq, br, call.q2, call.r2)

-----------------------------------------------------------------------------
(* Claims about the CR of a positional encounter. *)

Clamp(x, lo, hi) == IF x < lo THEN lo ELSE IF x > hi THEN hi ELSE x

\* C17: for every distance >= 0, terrain and party level in 1..20, the CR is
\* floor(distance / 3), plus 1 on mountain or swamp, clamped first into
\* [max(0, partyLevel - 2), partyLevel + 2] and then into [0, 20]; it lies in
\* both intervals.
C17_CrFormula ==
    call.op = "_calculate_encounter_cr" =>
        LET base == (call.distance \div 3)
                        + (IF call.terrain_type \in {"mountain", "swamp"} THEN 1 ELSE 0)
            lo == IF call.party_level - 2 > 0 THEN call.party_level - 2 ELSE 0
            hi == call.party_level + 2
        IN  /\ last.value = Clamp(Clamp(base, lo, hi), 0, 20)
            /\ last.value \in lo..hi
            /\ last.value \in 0..20

\* For a party of level 20 far from the origin the first clamp gives 22 and
\* the second 20.
C17_Witness ==
    /\ call.op = "_calculate_encounter_cr"
    /\ call.party_level = 20
    /\ call.distance \div 3 > 22
    /\ last.value = 20

-----------------------------------------------------------------------------
(* Claims about creature selection. *)

\* The catalog positions of the creatures whose CR is within the tier ceiling.
EligibleAt(level) ==
    {i \in 1..Len(monsters) :
        FloatLeqInt(_cr_to_float(monsters[i].cr), get_tier_max_cr(level))}

\* C11: among the catalog creatures whose CR is <= the level's tier ceiling,
\* _find_best_creature(target, level) returns one with the maximum xp among
\* those with xp <= floor(1.2 * target); when none is at or under that cap it
\* returns one with the minimum xp; it returns None only when no creature is
\* within the tier ceiling.
C11_BestCreature ==
    call.op = "_find_best_creature" =>
        LET elig == EligibleAt(call.level)
            cap == (12 * call.xp) \div 10
            under == {i \in elig : monsters[i].xp <= cap}
        IN  IF elig = {} THEN last.value = PyNone
            ELSE \E i \in elig :
                    /\ last.value = monsters[i]
                    /\ IF under # {}
                       THEN /\ i \in under
                            /\ \A j \in under : monsters[j].xp <= monsters[i].xp
                       ELSE \A j \in elig : monsters[i].xp <= monsters[j].xp

\* The creature returned costs more than the target, within the 20% allowed,
\* and a cheaper eligible creature was passed over.
C11_Witness ==
    /\ call.op = "_find_best_creature"
    /\ last.value # PyNone
    /\ last.value.xp > call.xp
    /\ 10 * last.value.xp <= 12 * call.xp
    /\ \E j \in EligibleAt(call.level) : monsters[j].xp < last.value.xp

-----------------------------------------------------------------------------
(* Claims about the buckets of a split result. *)

XPSplit == XPReturned /\ last.value.pattern = "split"

\* What the breakdown reports of bucket k, and the entries it counts.
BucketReport(k) ==
    IF k = 1 THEN last.value.bucket_breakdown.bucket1
    ELSE last.value.bucket_breakdown.bucket2
BucketEntries(k) ==
    LET n1 == last.value.bucket_breakdown.bucket1.creatures
    IN  IF k = 1 THEN SubSeq(last.value.creatures, 1, n1)
        ELSE SubSeq(last.value.creatures, n1 + 1, Len(last.value.creatures))

\* The pattern bucket k drew: the draws are the roll, then for each bucket its
\* pattern and, after "mounted", its unit count.
DrawnPattern(k) ==
    IF k = 1 THEN last.draws[2]
    ELSE IF last.draws[2] = "mounted" THEN last.draws[4] ELSE last.draws[3]

IsMountedUnit(c) == "is_mounted" \in DOMAIN c
AllMounted(es) == \A i \in 1..Len(es) : IsMountedUnit(es[i])
NoneMounted(es) == \A i \in 1..Len(es) : ~IsMountedUnit(es[i])

\* C12: in every split result both buckets get budget // 2 and report it, the
\* odd unit of an odd budget going to neither; the budget field is the full
\* budget; the creature list is bucket 1's creatures followed by bucket 2's,
\* so the two reported counts sum to its length.
C12_SplitHalves ==
    XPSplit =>
        LET full == XP_BUDGETS[call.player_level][str_lower(call.difficulty)]
        IN  /\ last.value.budget = full
            /\ \A k \in {1, 2} :
                /\ BucketReport(k).xp = full \div 2
                /\ IF BucketReport(k).pattern = "mounted"
                   THEN AllMounted(BucketEntries(k))
                   ELSE NoneMounted(BucketEntries(k))
            /\ BucketReport(1).creatures + BucketReport(2).creatures
                   = Len(last.value.creatures)

\* An odd budget, split into a mounted bucket followed by a bucket of other
\* creatures.
C12_Witness ==
    /\ XPSplit
    /\ last.value.budget % 2 = 1
    /\ BucketReport(1).pattern = "mounted"
    /\ BucketReport(2).pattern = "boss"
    /\ BucketReport(1).creatures >= 2
    /\ BucketReport(2).creatures = 1

\* C13: every mounted-unit entry has xp = rider.xp + mount.xp and the rider's
\* cr, its rider a catalog creature that can ride and its mount a catalog
\* creature that can be a mount; a bucket with pattern "mounted" holds between
\* 1 and 4 such units, all identical.
C13_MountedUnits ==
    XPReturned =>
        /\ \A i \in 1..Len(last.value.creatures) :
            LET c == last.value.creatures[i]
            IN  IsMountedUnit(c) =>
                    /\ c.xp = c.rider.xp + c.mount.xp
                    /\ c.cr = c.rider.cr
                    /\ c.rider \in SeqToSet(monsters) /\ c.rider.can_ride
                    /\ c.mount \in SeqToSet(monsters) /\ c.mount.can_be_mount
        /\ last.value.pattern = "split" =>
            \A k \in {1, 2} :
                BucketReport(k).pattern = "mounted" =>
                    /\ Len(BucketEntries(k)) \in 1..4
                    /\ AllMounted(BucketEntries(k))
                    /\ \A i \in 1..Len(BucketEntries(k)) :
                        BucketEntries(k)[i] = BucketEntries(k)[1]

\* Four identical units in bucket 2, their rider's CR not their mount's.
C13_Witness ==
    /\ XPSplit
    /\ BucketReport(2).pattern = "mounted"
    /\ Len(BucketEntries(2)) = 4
    /\ BucketEntries(2)[1].rider.cr # BucketEntries(2)[1].mount.cr
    /\ BucketEntries(2)[1].cr = BucketEntries(2)[1].rider.cr

\* Whether the catalog has a tier-eligible rider, and a tier-eligible mount.
HasRider(level) == \E i \in EligibleAt(level) : monsters[i].can_ride
HasMount(level) == \E i \in EligibleAt(level) : monsters[i].can_be_mount

\* C14: a bucket that draws "mounted" over a catalog with no tier-eligible
\* rider or no tier-eligible mount is filled by the minions procedure and
\* tagged "minions_fallback", not the "minions" of a bucket that drew minions;
\* a bucket is tagged "mounted" only when it holds at least one mounted unit.
C14_MountedFallback ==
    XPSplit =>
        \A k \in {1, 2} :
            /\ (DrawnPattern(k) = "mounted"
                    /\ ~(HasRider(call.player_level) /\ HasMount(call.player_level)))
                => /\ BucketReport(k).pattern = "minions_fallback"
                   /\ BucketEntries(k) =
                          _find_4_minions(monsters, last.value.budget \div 2,
                                          call.player_level)
            /\ DrawnPattern(k) = "minions" => BucketReport(k).pattern = "minions"
            /\ BucketReport(k).pattern = "minions_fallback"
                => DrawnPattern(k) = "mounted"
            /\ BucketReport(k).pattern = "mounted"
                => /\ BucketEntries(k) # <<>>
                   /\ AllMounted(BucketEntries(k))

\* Over a catalog with a rider and no mount, bucket 1 drew "mounted" and holds
\* four minions under the fallback tag, while bucket 2 drew minions.
C14_Witness ==
    /\ XPSplit
    /\ HasRider(call.player_level)
    /\ ~HasMount(call.player_level)
    /\ DrawnPattern(1) = "mounted"
    /\ BucketReport(1).pattern = "minions_fallback"
    /\ Len(BucketEntries(1)) = 4
    /\ BucketReport(2).pattern = "minions"

\* C15: a bucket tagged "minions" or "minions_fallback" holds four equal
\* entries of the best-fit creature for (sub-budget // 4), or nothing when no
\* creature is within the tier ceiling; a bucket tagged "boss" holds at most
\* one entry, the best-fit creature for the whole sub-budget.
C15_MinionsAndBoss ==
    XPSplit =>
        \A k \in {1, 2} :
            LET sub == last.value.budget \div 2
                minion == _find_best_creature(monsters, sub \div 4, call.player_level)
                boss == _find_best_creature(monsters, sub, call.player_level)
                none == EligibleAt(call.player_level) = {}
            IN  /\ BucketReport(k).pattern \in {"minions", "minions_fallback"}
                    => BucketEntries(k) =
                           IF none THEN <<>> ELSE <<minion, minion, minion, minion>>
                /\ BucketReport(k).pattern = "boss"
                    => /\ Len(BucketEntries(k)) <= 1
                       /\ BucketEntries(k) = IF none THEN <<>> ELSE <<boss>>

\* Four minions in bucket 1 and a costlier boss in bucket 2.
C15_Witness ==
    /\ XPSplit
    /\ BucketReport(1).pattern = "minions"
    /\ BucketReport(2).pattern = "boss"
    /\ Len(BucketEntries(1)) = 4
    /\ Len(BucketEntries(2)) = 1
    /\ BucketEntries(2)[1].xp > BucketEntries(1)[1].xp

\* The tier ceilings: 2 for levels 1-4, 5 for 5-8, 8 for 9-12, 13 for 13-16,
\* 20 for 17-20.
TierCeiling(level) ==
    CASE level \in 1..4 -> 2
      [] level \in 5..8 -> 5
      [] level \in 9..12 -> 8
      [] level \in 13..16 -> 13
      [] level \in 17..20 -> 20
CrWithin(c, level) == FloatLeqInt(_cr_to_float(c.cr), TierCeiling(level))

\* C16: every creature entry of a generated XP encounter, and the rider and
\* the mount of every mounted unit, has a CR <= the tier ceiling of the
\* player level.
C16_TierCeiling ==
    XPReturned =>
        \A i \in 1..Len(last.value.creatures) :
            LET c == last.value.creatures[i]
            IN  /\ CrWithin(c, call.player_level)
                /\ IsMountedUnit(c) =>
                    /\ CrWithin(c.rider, call.player_level)
                    /\ CrWithin(c.mount, call.player_level)

\* At level 8 a creature of CR 5, the ceiling, was chosen though the catalog
\* has creatures above it.
C16_Witness ==
    /\ XPReturned
    /\ call.player_level = 8
    /\ \E i \in 1..Len(last.value.creatures) :
        last.value.creatures[i].cr = CrInt(5)
    /\ \E j \in 1..Len(monsters) : ~CrWithin(monsters[j], 8)

-----------------------------------------------------------------------------
(* Claims about neighbours and directions. *)

\* C21: for every hex h and every integer direction d, negative values and
\* values >= 6 included, get_neighbor(h, d) returns h plus the (d mod 6)-th
\* delta of the list E, NE, NW, W, SW, SE; get_all_neighbors(h) returns six
\* pairwise distinct hexes in direction-index order, each at distance 1 from h.
C21_NeighborWraps ==
    LET E == <<1, 0>>    NE == <<1, -1>>    NW == <<0, -1>>
        W == <<-1, 0>>   SW == <<-1, 1>>    SE == <<0, 1>>
        deltas == <<E, NE, NW, W, SW, SE>>
    IN  /\ call.op = "get_neighbor" =>
            /\ last.status = "returned"
            /\ last.value = <<call.q + deltas[(call.direction % 6) + 1][1],
                              call.r + deltas[(call.direction % 6) + 1][2]>>
        /\ call.op = "get_all_neighbors" =>
            /\ last.status = "returned"
            /\ Len(last.value) = 6
            /\ \A i \in 1..6 :
                /\ last.value[i] = <<call.q + deltas[i][1], call.r + deltas[i][2]>>
                /\ get_distance(call.q, call.r, last.value[i][1], last.value[i][2]) = 1
                /\ \A j \in 1..6 : i # j => last.value[i] # last.value[j]

\* Direction -1 from (1, -1) is the southeast neighbour (1, 0).
C21_Witness ==
    /\ call.op = "get_neighbor"
    /\ <<call.q, call.r, call.direction>> = <<1, -1, -1>>
    /\ last.value = <<1, 0>>

\* C22: for every hex h and every i in 0..5,
\* get_direction_index(h, get_neighbor(h, i)) = i, and get_direction_name of it
\* is the i-th label of East, Northeast, Northwest, West, Southwest, Southeast.
C22_DirectionRoundTrip ==
    call.op = "get_direction_index" =>
        \A i \in 0..5 :
            <<call.to_q, call.to_r>> = get_neighbor(call.from_q, call.from_r, i)
                => /\ last.value = i
                   /\ get_direction_name(last.value) =
                        <<"East", "Northeast", "Northwest", "West", "Southwest",
                          "Southeast">>[i + 1]

\* The hex southwest of (-2, 1) is in direction 4 of it.
C22_Witness ==
    /\ call.op = "get_direction_index"
    /\ <<call.from_q, call.from_r>> = <<-2, 1>>
    /\ <<call.to_q, call.to_r>> = <<-3, 2>>
    /\ last.value = 4

-----------------------------------------------------------------------------
(* Claims about the tables of data/xp_budgets.py. *)

\* C23: cr_to_xp("1/3"), a CR absent from the table, is estimated with
\* floor(25 + 75 * CR), which is 50: equal to cr_to_xp("1/4") = 50, not greater
\* than it, and less than cr_to_xp("1/2") = 100.
C23_OneThirdEstimate ==
    (call.op = "cr_to_xp" /\ call.cr = <<"1", "/", "3">>) =>
        /\ last.value = (25 * 3 + 75 * 1) \div 3
        /\ last.value = 50
        /\ last.value = cr_to_xp(<<"1", "/", "4">>)
        /\ last.value < cr_to_xp(<<"1", "/", "2">>)
        /\ cr_to_xp(<<"1", "/", "2">>) = 100

\* cr_to_xp("1/3") returned 50.
C23_Witness ==
    /\ call.op = "cr_to_xp"
    /\ call.cr = <<"1", "/", "3">>
    /\ last.status = "returned"
    /\ last.value = 50

\* C23 as stated: the estimate for "1/3" is greater than cr_to_xp("1/4") = 50
\* and less than cr_to_xp("1/2") = 100.
C23_AsStated ==
    (call.op = "cr_to_xp" /\ call.cr = <<"1", "/", "3">>) =>
        /\ last.value > cr_to_xp(<<"1", "/", "4">>)
        /\ last.value < cr_to_xp(<<"1", "/", "2">>)

\* C24: the XP budget table is strictly increasing in both arguments:
\* budget(level + 1, d) > budget(level, d) for levels 1..19 and every
\* difficulty, and budget(level, low) < budget(level, moderate)
\* < budget(level, high) for every level 1..20.
C24_BudgetsIncrease ==
    (call.op = "get_xp_budget" /\ call.level \in 1..20
        /\ call.difficulty \in {KeyLow, KeyModerate, KeyHigh}) =>
        /\ last.status = "returned"
        /\ call.level <= 19 =>
            get_xp_budget(call.level + 1, call.difficulty).val > last.value
        /\ call.difficulty = KeyLow =>
            last.value < get_xp_budget(call.level, KeyModerate).val
        /\ call.difficulty = KeyModerate =>
            last.value < get_xp_budget(call.level, KeyHigh).val

\* The moderate budget of level 19, between its neighbours in both directions.
C24_Witness ==
    /\ call.op = "get_xp_budget"
    /\ call.level = 19
    /\ call.difficulty = KeyModerate
    /\ last.value = 9000

-----------------------------------------------------------------------------
(* Further claims about the positional encounter service. *)

\* C25: for a fixed terrain and party level, the CR computed by
\* _calculate_encounter_cr is non-decreasing in the distance from the origin:
\* d1 <= d2 implies cr(d1) <= cr(d2).
C25_CrMonotone ==
    call.op = "_calculate_encounter_cr" =>
        \A d2 \in call.distance..MaxDistance :
            last.value <=
                _calculate_encounter_cr(d2, call.terrain_type, call.party_level)

\* A CR inside the party's range that grows three hexes further out and is cut
\* off by the range's top beyond it.
C25_Witness ==
    /\ call.op = "_calculate_encounter_cr"
    /\ <<call.distance, call.terrain_type, call.party_level>> = <<10, "plains", 2>>
    /\ last.value = 3
    /\ _calculate_encounter_cr(13, "plains", 2) = 4
    /\ _calculate_encounter_cr(40, "plains", 2) = 4

\* C26: the encounter type of every generated positional encounter is a
\* member of the fixed list of its terrain, for every coordinate and party
\* level.
C26_TypeFitsTerrain ==
    (/\ call.op \in {"generate_encounter", "check_for_encounter_on_travel"}
     /\ last.status = "returned"
     /\ last.value # PyNone) =>
        /\ last.value.terrain_type = call.terrain_type
        /\ last.value.encounter_type \in
            CASE call.terrain_type = "plains" -> {"beast", "humanoid"}
              [] call.terrain_type = "forest" -> {"beast", "fey", "humanoid"}
              [] call.terrain_type = "mountain" -> {"giant", "dragon", "beast"}
              [] call.terrain_type = "hills" -> {"humanoid", "beast", "giant"}
              [] call.terrain_type = "swamp" -> {"monstrosity", "undead", "aberration"}
              [] call.terrain_type = "desert" -> {"monstrosity", "elemental", "beast"}
              [] call.terrain_type = "urban" -> {"humanoid", "construct"}

\* An encounter in a swamp, none of whose types is the default one.
C26_Witness ==
    /\ call.op = "generate_encounter"
    /\ call.terrain_type = "swamp"
    /\ last.status = "returned"
    /\ last.value # PyNone
    /\ last.value.encounter_type \in {"monstrosity", "undead", "aberration"}

-----------------------------------------------------------------------------
(* Claims about the achieved XP. *)

\* The xp a bucket of a split result holds.
BucketXp(k) == SumSeq([i \in 1..Len(BucketEntries(k)) |-> BucketEntries(k)[i].xp])

\* C27: with the default catalog, for every level in 1..20, every difficulty
\* and every outcome of the draws, a legendary encounter stays within 1.2 times
\* the budget and a boss bucket within 1.2 times its half-budget; a minions
\* bucket stays within 1.2 times its half-budget when a quarter of it is at
\* least 9 and otherwise holds four of the cheapest creature, 40 xp in all.
\* Mounted buckets have no such bound, and the total of a split encounter may
\* exceed 1.2 times the budget.
C27_OvershootByPattern ==
    (XPReturned /\ monsters = BASIC_MONSTERS) =>
        /\ last.value.pattern = "legendary" =>
            5 * last.value.total_xp <= 6 * last.value.budget
        /\ last.value.pattern = "split" =>
            \A k \in {1, 2} :
                LET sub == last.value.budget \div 2
                IN  /\ BucketReport(k).pattern = "boss" => 5 * BucketXp(k) <= 6 * sub
                    /\ BucketReport(k).pattern \in {"minions", "minions_fallback"} =>
                        IF sub \div 4 >= 9
                        THEN 5 * BucketXp(k) <= 6 * sub
                        ELSE BucketXp(k) = 40

\* At level 1 with a low budget of 50, two minions buckets of 40 xp each.
C27_Witness ==
    /\ XPSplit
    /\ monsters = BASIC_MONSTERS
    /\ last.value.budget = 50
    /\ BucketReport(1).pattern = "minions"
    /\ BucketReport(2).pattern = "minions"
    /\ BucketXp(1) = 40
    /\ last.value.total_xp = 80

\* C27 as stated: with the default catalog the achieved total_xp does not
\* exceed 1.2 times the budget.
C27_AsStated ==
    (XPReturned /\ monsters = BASIC_MONSTERS) =>
        5 * last.value.total_xp <= 6 * last.value.budget

-----------------------------------------------------------------------------
(* Claims about positional and XP calls in one process. *)

\* The values a draw below n can take when the generator is g.
DrawOutcomes(g, n) == {RandBelow(g, n, e) : e \in 0..(n - 1)}

\* C28: the results an XP generate_encounter(level, difficulty) call can
\* return do not depend on which positional calls (generate_encounter,
\* get_random_terrain) ran before it in the same process: the random source
\* the call finds does not fix its pattern draw (one of 20 steps of
\* random()), its bucket draws (one of 3) or its unit-count draws (one of 4).
C28_XPDrawsIndependentOfHistory ==
    [][(call = NoCall /\ call'.op = "xp_generate_encounter"
            /\ last'.status = "returned") =>
        \A n \in {20, 3, 4} : DrawOutcomes(rng, n) = 0..(n - 1)]_vars

-----------------------------------------------------------------------------
(* Claims about the save store. *)

\* C29: after any sequence of create_save and delete_save operations no two
\* saves in the store have the same id, so get_save(id) returns the one save
\* of that id.
C29_SaveIdsUnique ==
    /\ \A i, j \in 1..Len(saves_db) : i # j => saves_db[i].id # saves_db[j].id
    /\ (call.op = "get_save" /\ "id" \in DOMAIN last.value) =>
            \A i \in 1..Len(saves_db) :
                saves_db[i].id = call.save_id => saves_db[i] = last.value

-----------------------------------------------------------------------------
(* A caller that keeps a result of the XP generator and assigns to the xp  *)
(* of one of its creature entries.  _generate_legendary and the boss       *)
(* branch of _spend_bucket put the catalog's own dict into the list;       *)
(* _find_4_minions and _find_mounted_units put copies and new dicts.       *)

\* The catalog position whose dict entry i of the kept result is, 0 when the
\* entry is a dict of its own.
CatalogEntryOf(i) ==
    LET entry == last.value.creatures[i]
        k == IF i <= last.value.bucket_breakdown.bucket1.creatures THEN 1 ELSE 2
        shared == IF last.value.pattern = "legendary" THEN TRUE
                  ELSE BucketReport(k).pattern = "boss"
        hits == {j \in 1..Len(monsters) : monsters[j] = entry}
    IN  IF shared /\ hits # {} THEN CHOOSE j \in hits : \A h \in hits : j <= h ELSE 0

\* result["creatures"][i]["xp"] = 0, on a generator whose catalog is still as
\* it was built.
ModifyReturnedEntry ==
    /\ XPReturned
    /\ monsters \in Catalogs
    /\ \E i \in 1..Len(last.value.creatures) :
        \E j \in {CatalogEntryOf(i)} :
            /\ last.value.creatures[i].xp # 0
            /\ last' = [last EXCEPT !.value.creatures =
                          [n \in 1..Len(@) |->
                              IF n = i \/ (j # 0 /\ CatalogEntryOf(n) = j)
                              THEN [@[n] EXCEPT !.xp = 0] ELSE @[n]]]
            /\ monsters' = IF j = 0 THEN monsters ELSE [monsters EXCEPT ![j].xp = 0]
    /\ UNCHANGED <<hashSalt, rng, call, thr, observed, saves_db>>

XPGenerateEncounterLowLevel ==
    /\ XPGenerateEncounter
    /\ call'.player_level <= MaxAliasLevel

NextAlias ==
    \/ NewXPEncounterGenerator
    \/ XPGenerateEncounterLowLevel
    \/ ModifyReturnedEntry
    \/ Return

SpecAlias == InitXP /\ [][NextAlias]_vars

\* C30: creature entries returned by the XP generator are independent of the
\* catalog for every pattern (legendary, boss, minions, mounted): a caller
\* that modifies a returned entry, for example its xp, does not change the
\* catalog, and so not the result of any later generate_encounter call.
C30_EntriesIndependentOfCatalog ==
    [][(call' = call /\ call.op = "xp_generate_encounter" /\ last' # last)
        => monsters' = monsters]_vars

=============================================================================
